---- MODULE Spec2Model ----
(***************************************************************************)
(* A model of hobby-lang: the recursive-descent parser (parser.cpp), the   *)
(* AST (ast.hpp), the tree-walking interpreter (interpreter.cpp), the      *)
(* WebAssembly emitter (wasm.cpp) and the driver (hobbyc/main.cpp).        *)
(*                                                                         *)
(* Source text is a sequence of one-character strings.  A ParseInput is a  *)
(* record [pos, full, name]: `current` is the suffix of `full` that starts *)
(* at byte offset pos.  Every parsing routine returns a record             *)
(* [ok, thrown, what, remaining, result]; thrown = TRUE stands for the     *)
(* std::runtime_error that unrecoverableError raises, with `what` its      *)
(* message.  A shared_ptr<Type> is the index of the type in program.types, *)
(* a shared_ptr<Function> the index of the function in program.functions.  *)
(***************************************************************************)
EXTENDS Integers, Sequences, FiniteSets, TLC

VARIABLES
    scenario,    \* the description the source text was written from
    source,      \* the input text handed to parse
    pc,          \* "start", "parsed", "built", "executed", "compiled", "located",
                 \* "evaluated", "encoded", "exited", "executed after compile",
                 \* "compiled again", "stepped"
    parsed,      \* outcome of parse: [ok, what, program]; in SpecCompile the
                 \* Program a client built
    executed,    \* outcome of execute: [st, value, what]
    locArg,      \* byte offset handed to locate
    located,     \* the Location locate returned
    binArg,      \* [op, lhs, rhs] handed to the binary operator evaluation
    binResult,   \* its outcome
    compiled,    \* outcome of compile: [st, bytes, what]
    slebArg,     \* the std::int32_t handed to writeSLEB128
    slebBytes,   \* the bytes writeSLEB128 wrote
    args,        \* the command line of the driver: [files, execute]
    exitStatus,  \* how the driver process ended
    cursor,      \* the byte offset of source a parsing routine is given
    step         \* the routine applied at the cursor and how it ended

vars == <<scenario, source, pc, parsed, executed, locArg, located, binArg, binResult,
          compiled, slebArg, slebBytes, args, exitStatus, cursor, step>>

(***************************************************************************)
(* Bounds of the model.                                                    *)
(***************************************************************************)
MaxTerms == 3
MaxDefs == 3
MaxLocateLen == 5
MaxCallDepth == 3
MaxParams == 2

(***************************************************************************)
(* Characters and the text constants of the sources.                       *)
(***************************************************************************)
NL == "\n"
TAB == "\t"
SP == " "
Whitespace == {SP, TAB, NL}
LowerLetters == {"a","b","c","d","e","f","g","h","i","j","k","l","m",
                 "n","o","p","q","r","s","t","u","v","w","x","y","z"}
UpperLetters == {"A","B","C","D","E","F","G","H","I","J","K","L","M",
                 "N","O","P","Q","R","S","T","U","V","W","X","Y","Z"}
DigitChars == <<"0","1","2","3","4","5","6","7","8","9">>
Digits == {DigitChars[i] : i \in 1..10}
DigitValue(c) == (CHOOSE i \in 1..10 : DigitChars[i] = c) - 1

\* the range of std::int32_t
I32Max == 2147483647
I32Min == (0 - I32Max) - 1

s_def == <<"d","e","f">>
s_fun == <<"f","u","n">>
s_in == <<"i","n">>
s_out == <<"o","u","t">>
s_inout == <<"i","n","o","u","t">>
s_i32 == <<"i","3","2">>
s_main == <<"m","a","i","n">>
s_exitCode == <<"e","x","i","t","C","o","d","e">>

(***************************************************************************)
(* parser.cpp: Location, locate, ParseInput, unrecoverableError            *)
(***************************************************************************)
\* std::string_view::npos, as the value the searches return for no match
npos == -1

\* std::ranges::count(before, '\n') over the first n bytes
CountNewlines(text, n) == Cardinality({i \in 1..n : text[i] = NL})

\* std::string_view::rfind('\n') over the first n bytes: the 0-based offset of
\* the last line break
RFindNewline(text, n) ==
    LET breaks == {i \in 1..n : text[i] = NL}
    IN  IF breaks = {} THEN npos
        ELSE (CHOOSE i \in breaks : \A j \in breaks : j <= i) - 1

\* originalBeforeSubstring.size() - lastLineBreak
ColumnCountingTheLineBreak(size, lastLineBreak) == size - lastLineBreak + 1

ColumnOnLaterLine(size, lastLineBreak) == size - lastLineBreak

locate(substringStart, original) ==
    IF substringStart < 0 \/ Len(original) < substringStart
    THEN [thrown |-> TRUE, lineNumber |-> 0, columnNumber |-> 0, byteOffset |-> 0]
    ELSE LET size == substringStart
             line == CountNewlines(original, size) + 1
         IN  [thrown |-> FALSE,
              lineNumber |-> line,
              columnNumber |-> IF line = 1 THEN size + 1
                               ELSE ColumnOnLaterLine(size, RFindNewline(original, size)),
              byteOffset |-> size]

NoInput == [pos |-> 0, full |-> <<>>, name |-> ""]

CurSize(input) == Len(input.full) - input.pos
CurEmpty(input) == CurSize(input) = 0
\* current[i], i counted from 0
CurAt(input, i) == input.full[input.pos + 1 + i]
\* the bytes of full in [from, to)
View(full, from, to) == SubSeq(full, from + 1, to)

\* the cursor stepping back by the offset, no further than the start
ConsumeBackwards(input, offset) ==
    [input EXCEPT !.pos = IF @ >= offset THEN @ - offset ELSE 0]

\* ParseInput consume(std::size_t offset) const
consume(input, offset) == [input EXCEPT !.pos = @ + offset]

StartsWith(input, literal) ==
    /\ CurSize(input) >= Len(literal)
    /\ \A i \in 1..Len(literal) : input.full[input.pos + i] = literal[i]

Ok(remaining, result) ==
    [ok |-> TRUE, thrown |-> FALSE, what |-> <<>>, remaining |-> remaining, result |-> result]
NotOk ==
    [ok |-> FALSE, thrown |-> FALSE, what |-> <<>>, remaining |-> NoInput, result |-> <<>>]
Thrown(what) ==
    [ok |-> FALSE, thrown |-> TRUE, what |-> what, remaining |-> NoInput, result |-> <<>>]

\* fmt::format("{}({}:{}): {}", sourceFileName, lineNumber, columnNumber, description):
\* the message as the sequence of its pieces
FormatLocated(name, line, column, description) ==
    <<name, "(", line, ":", column, "): ">> \o description

unrecoverableError(description, errorLocation) ==
    LET location == locate(errorLocation.pos, errorLocation.full)
    IN  IF location.thrown
        THEN Thrown(<<"locate can only be used on substrings of the original string">>)
        ELSE Thrown(FormatLocated(errorLocation.name, location.lineNumber,
                                  location.columnNumber, description))

(***************************************************************************)
(* parser.cpp: the lexical helpers                                         *)
(***************************************************************************)
parseLiteral(input, literal) ==
    IF StartsWith(input, literal)
    THEN Ok(consume(input, Len(literal)), literal)
    ELSE NotOk

\* find_first_not_of(" \t\n") on current, searching from offset i
RECURSIVE FindFirstNotWhitespace(_, _)
FindFirstNotWhitespace(input, i) ==
    IF i >= CurSize(input) THEN npos
    ELSE IF CurAt(input, i) \notin Whitespace THEN i
    ELSE FindFirstNotWhitespace(input, i + 1)

parseWhitespace(input) ==
    LET firstNotWhitespace == FindFirstNotWhitespace(input, 0)
    IN  IF firstNotWhitespace = 0 \/ firstNotWhitespace = npos
        THEN NotOk
        ELSE Ok(consume(input, firstNotWhitespace),
                View(input.full, input.pos, input.pos + firstNotWhitespace))

skipWhitespace(input) ==
    LET firstNotWhitespace == FindFirstNotWhitespace(input, 0)
    IN  IF firstNotWhitespace = npos
        THEN consume(input, CurSize(input))
        ELSE consume(input, firstNotWhitespace)

RECURSIVE TrimLeft(_)
TrimLeft(text) ==
    IF text # <<>> /\ Head(text) \in Whitespace THEN TrimLeft(Tail(text)) ELSE text

RECURSIVE TrimRight(_)
TrimRight(text) ==
    IF text # <<>> /\ text[Len(text)] \in Whitespace
    THEN TrimRight(SubSeq(text, 1, Len(text) - 1))
    ELSE text

trim(text) == TrimRight(TrimLeft(text))

isBasicLetter(letter) == letter \in LowerLetters \/ letter \in UpperLetters
isDigit(letter) == letter \in Digits

\* std::ranges::find_if_not over current: offset of the first byte that is
\* neither a letter nor a digit (the size of current when there is none)
RECURSIVE FindFirstNotIdentifierChar(_, _)
FindFirstNotIdentifierChar(input, i) ==
    IF i >= CurSize(input) THEN i
    ELSE IF ~(isBasicLetter(CurAt(input, i)) \/ isDigit(CurAt(input, i))) THEN i
    ELSE FindFirstNotIdentifierChar(input, i + 1)

parseIdentifier(input) ==
    LET identifierLength == FindFirstNotIdentifierChar(input, 0)
    IN  IF identifierLength = 0 \/ ~isBasicLetter(CurAt(input, 0))
        THEN NotOk
        ELSE Ok(consume(input, identifierLength),
                View(input.full, input.pos, input.pos + identifierLength))

parseParameterDirection(input) ==
    IF parseLiteral(input, s_in).ok
    THEN Ok(parseLiteral(input, s_in).remaining, "in")
    ELSE IF parseLiteral(input, s_out).ok
    THEN Ok(parseLiteral(input, s_out).remaining, "out")
    ELSE IF parseLiteral(input, s_inout).ok
    THEN Ok(parseLiteral(input, s_inout).remaining, "inout")
    ELSE unrecoverableError(<<"Expected parameter direction">>, input)

(***************************************************************************)
(* ast.hpp: the data model.  Type.t and Expression.expr are variants: the  *)
(* field k names the alternative held.                                     *)
(***************************************************************************)
BuiltInType(name) == [k |-> "BuiltInType", name |-> name, rep |-> <<>>, parameters |-> <<>>]
FuncType(rep, parameters) == [k |-> "FuncType", name |-> <<>>, rep |-> rep, parameters |-> parameters]
FuncParameter(name, direction, type) == [name |-> name, direction |-> direction, type |-> type]
Type(rep, t) == [rep |-> rep, t |-> t]

\* friend bool operator==(FuncParameter const&, FuncParameter const&) = default;
\* the shared_ptr<Type> members compare by identity
FuncParameterEq(lhs, rhs) ==
    lhs.name = rhs.name /\ lhs.direction = rhs.direction /\ lhs.type = rhs.type

\* std::vector<FuncParameter>::operator==
ParametersEq(lhs, rhs) ==
    Len(lhs) = Len(rhs) /\ \A i \in 1..Len(lhs) : FuncParameterEq(lhs[i], rhs[i])

\* friend bool operator==(FuncType const&, FuncType const&) = default;
FuncTypeEq(lhs, rhs) == lhs.rep = rhs.rep /\ ParametersEq(lhs.parameters, rhs.parameters)

\* friend bool operator==(BuiltInType const&, BuiltInType const&) = default;
BuiltInTypeEq(lhs, rhs) == lhs.name = rhs.name

\* friend bool operator==(Type const&, Type const&) = default; every member
\* is compared, rep included
TypeEq(lhs, rhs) ==
    /\ lhs.rep = rhs.rep
    /\ lhs.t.k = rhs.t.k
    /\ IF lhs.t.k = "BuiltInType" THEN BuiltInTypeEq(lhs.t, rhs.t) ELSE FuncTypeEq(lhs.t, rhs.t)

Literal(value) == [k |-> "Literal", value |-> value]
InitAssignment(var, value) == [k |-> "InitAssignment", var |-> var, value |-> value]
BinaryOpExpression(op, lhs, rhs) == [k |-> "BinaryOpExpression", op |-> op, lhs |-> lhs, rhs |-> rhs]
FunctionCall(functionName, arguments) ==
    [k |-> "FunctionCall", functionName |-> functionName, arguments |-> arguments]
VarExpression(varName) == [k |-> "VarExpression", varName |-> varName]
Expression(rep, expr) == [rep |-> rep, expr |-> expr]
FuncArgument(name, direction, expr) == [name |-> name, direction |-> direction, expr |-> expr]
Function(name, sourceFile, type, expression) ==
    [name |-> name, sourceFile |-> sourceFile, type |-> type, expression |-> expression]

\* Program{}: no types, no functions, mainFunction null (0)
EmptyProgram == [types |-> <<>>, functions |-> <<>>, mainFunction |-> 0]

(***************************************************************************)
(* parser.cpp: types                                                       *)
(***************************************************************************)
OkP(remaining, result, program) ==
    [ok |-> TRUE, thrown |-> FALSE, what |-> <<>>, remaining |-> remaining,
     result |-> result, program |-> program]

\* the for loop of findOrAddType: index of the first equal type, 0 when none
RECURSIVE FindType(_, _, _)
FindType(types, maybeNewType, i) ==
    IF i > Len(types) THEN 0
    ELSE IF TypeEq(types[i], maybeNewType) THEN i
    ELSE FindType(types, maybeNewType, i + 1)

findOrAddType(program, maybeNewType) ==
    LET found == FindType(program.types, maybeNewType, 1)
    IN  IF found # 0
        THEN [program |-> program, type |-> found]
        ELSE [program |-> [program EXCEPT !.types = Append(@, maybeNewType)],
              type |-> Len(program.types) + 1]

\* LET with the value computed once: value is bound to the parameter of Body
Let(value, Body(_)) == Body(value)

RECURSIVE parseType(_, _)
RECURSIVE parseFuncType(_, _)
RECURSIVE parseFuncTypeParameter(_, _)
RECURSIVE parseMoreParameters(_, _, _)

parseFuncTypeParameter(program, input) ==
    LET direction == parseParameterDirection(input)
    IN
    IF direction.thrown THEN direction
    ELSE IF ~direction.ok THEN unrecoverableError(<<"Expected parameter direction">>, input)
    ELSE
    LET directionWhitespace == parseWhitespace(direction.remaining)
    IN
    IF ~directionWhitespace.ok
    THEN unrecoverableError(<<"Expected parameter direction followed by whitespace">>,
                            direction.remaining)
    ELSE
    LET parameterName == parseIdentifier(directionWhitespace.remaining)
    IN
    IF ~parameterName.ok
    THEN unrecoverableError(<<"Expected parameter name">>, directionWhitespace.remaining)
    ELSE
    LET parameterWRemInput == skipWhitespace(parameterName.remaining)
        colonLiteral == parseLiteral(parameterWRemInput, <<":">>)
    IN
    IF ~colonLiteral.ok
    THEN unrecoverableError(<<"Expected colon between parameter name and type">>,
                            parameterWRemInput)
    ELSE
    LET colonWRemInput == skipWhitespace(colonLiteral.remaining)
    IN
    Let(parseType(program, colonWRemInput), LAMBDA parameterType :
    IF parameterType.thrown THEN parameterType
    ELSE IF ~parameterType.ok
    THEN unrecoverableError(<<"Expected parameter type">>, colonWRemInput)
    ELSE OkP(skipWhitespace(parameterType.remaining),
             FuncParameter(parameterName.result, direction.result, parameterType.result),
             parameterType.program))

\* the for loop of parseFuncType over "," separated parameters
parseMoreParameters(program, currentInput, parameters) ==
    LET parameterSeparator == parseLiteral(currentInput, <<",">>)
    IN
    IF ~parameterSeparator.ok THEN OkP(currentInput, parameters, program)
    ELSE
    LET parameterSeparatorWRemInput == skipWhitespace(parameterSeparator.remaining)
    IN
    Let(parseFuncTypeParameter(program, parameterSeparatorWRemInput), LAMBDA parameter :
    IF parameter.thrown THEN parameter
    ELSE IF ~parameter.ok
    THEN unrecoverableError(<<"Expected function parameter">>, parameterSeparatorWRemInput)
    ELSE parseMoreParameters(parameter.program, parameter.remaining,
                             Append(parameters, parameter.result)))

parseFuncType(program, input) ==
    LET funLiteral == parseLiteral(input, s_fun)
    IN
    IF ~funLiteral.ok THEN NotOk
    ELSE
    LET funWRemInput == skipWhitespace(funLiteral.remaining)
        openParLiteral == parseLiteral(funWRemInput, <<"(">>)
    IN
    IF ~openParLiteral.ok THEN NotOk
    ELSE
    LET openParWRemInput == skipWhitespace(openParLiteral.remaining)
        emptyParLiteral == parseLiteral(openParWRemInput, <<")">>)
    IN
    IF emptyParLiteral.ok
    THEN OkP(skipWhitespace(emptyParLiteral.remaining),
             FuncType(trim(View(input.full, funWRemInput.pos, emptyParLiteral.remaining.pos)),
                      <<>>),
             program)
    ELSE
    Let(parseFuncTypeParameter(program, openParWRemInput), LAMBDA firstParameter :
    IF firstParameter.thrown THEN firstParameter
    ELSE IF ~firstParameter.ok
    THEN unrecoverableError(<<"Expected function parameter">>, openParWRemInput)
    ELSE
    Let(parseMoreParameters(firstParameter.program, firstParameter.remaining,
        <<firstParameter.result>>), LAMBDA more :
    IF more.thrown THEN more
    ELSE
    LET closeParLiteral == parseLiteral(more.remaining, <<")">>)
    IN
    IF ~closeParLiteral.ok
    THEN unrecoverableError(<<"Expected closing parenthesis">>, more.remaining)
    ELSE OkP(skipWhitespace(closeParLiteral.remaining),
             FuncType(trim(View(input.full, funLiteral.remaining.pos,
                                closeParLiteral.remaining.pos)),
                      more.result),
             more.program)))

parseType(program, input) ==
    Let(parseFuncType(program, input), LAMBDA funcType :
    IF funcType.thrown THEN funcType
    ELSE IF funcType.ok
    THEN LET maybeNewType == Type(trim(View(input.full, input.pos, funcType.remaining.pos)),
                                  funcType.result)
             added == findOrAddType(funcType.program, maybeNewType)
         IN  OkP(skipWhitespace(funcType.remaining), added.type, added.program)
    ELSE
    LET plainType == parseIdentifier(input)
    IN
    IF plainType.ok
    THEN IF plainType.result = s_i32
         THEN LET maybeNewType == Type(plainType.result, BuiltInType(plainType.result))
                  added == findOrAddType(program, maybeNewType)
              IN  OkP(skipWhitespace(plainType.remaining), added.type, added.program)
         ELSE unrecoverableError(<<"Type not implemented: ">> \o plainType.result, input)
    ELSE unrecoverableError(<<"Expected type">>, input))

isMainFuncType(types, type) ==
    IF type.t.k # "FuncType" THEN FALSE
    ELSE IF Len(type.t.parameters) # 1 THEN FALSE
    ELSE LET param == type.t.parameters[1]
    IN  IF param.name # s_exitCode \/ param.direction # "out" THEN FALSE
             ELSE LET paramType == types[param.type]
             IN  IF paramType.t.k # "BuiltInType" THEN FALSE
                      ELSE paramType.t.name = s_i32

(***************************************************************************)
(* parser.cpp: expressions                                                 *)
(***************************************************************************)
parseVarExpression(input) ==
    LET varIdentifier == parseIdentifier(input)
    IN  IF ~varIdentifier.ok THEN NotOk
        ELSE Ok(skipWhitespace(varIdentifier.remaining),
                Expression(varIdentifier.result, VarExpression(varIdentifier.result)))

\* number of consecutive digits of current from offset i on
RECURSIVE CountDigits(_, _)
CountDigits(input, i) ==
    IF i < CurSize(input) /\ isDigit(CurAt(input, i))
    THEN 1 + CountDigits(input, i + 1)
    ELSE 0

\* the digits of current in [from, from + n) accumulated as a negative
\* number, so that every std::int32_t is reached; overflow when the value
\* leaves the range
RECURSIVE AccumulateDigits(_, _, _, _)
AccumulateDigits(input, from, n, acc) ==
    IF n = 0 THEN [overflow |-> FALSE, acc |-> acc]
    ELSE LET digit == DigitValue(CurAt(input, from))
    IN  IF acc < (I32Min + digit + 9) \div 10
             THEN [overflow |-> TRUE, acc |-> 0]
             ELSE AccumulateDigits(input, from + 1, n - 1, 10 * acc - digit)

\* std::from_chars(first, last, std::int32_t&): an optional '-', then digits;
\* ec is "" for std::errc()
fromChars(input) ==
    LET negative == CurSize(input) > 0 /\ CurAt(input, 0) = "-"
        start == IF negative THEN 1 ELSE 0
        n == CountDigits(input, start)
        digits == AccumulateDigits(input, start, n, 0)
    IN  IF n = 0 THEN [ec |-> "invalid_argument", ptr |-> 0, value |-> -1]
        ELSE IF digits.overflow \/ (~negative /\ digits.acc = I32Min)
        THEN [ec |-> "result_out_of_range", ptr |-> start + n, value |-> -1]
        ELSE [ec |-> "", ptr |-> start + n,
              value |-> IF negative THEN digits.acc ELSE 0 - digits.acc]

parseNumberWithType(input) ==
    LET converted == fromChars(input)
    IN
    IF converted.ec # "" THEN unrecoverableError(<<"Expected number term">>, input)
    ELSE
    LET afterNumber == consume(input, converted.ptr)
    IN
    IF ~StartsWith(afterNumber, s_i32)
    THEN unrecoverableError(<<"Expected type after value">>, afterNumber)
    ELSE Ok(consume(afterNumber, 3),
            Expression(View(input.full, input.pos, input.pos + converted.ptr + 3),
                       Literal(converted.value)))

\* the switch of parseBinaryOperator with the results of '/' and '%' exchanged
parseBinaryOperatorExchanged(input) ==
    LET opChar == CurAt(input, 0)
    IN  CASE opChar = "+" -> Ok(input, "add")
          [] opChar = "-" -> Ok(input, "subtract")
          [] opChar = "*" -> Ok(input, "multiply")
          [] opChar = "/" -> Ok(input, "modulo")
          [] opChar = "%" -> Ok(input, "divide")
          [] OTHER -> unrecoverableError(<<"Unknown binary operator: ", opChar>>, input)

parseBinaryOperator(input) ==
    LET opChar == CurAt(input, 0)
    IN  CASE opChar = "+" -> Ok(input, "add")
          [] opChar = "-" -> Ok(input, "subtract")
          [] opChar = "*" -> Ok(input, "multiply")
          [] opChar = "/" -> Ok(input, "divide")
          [] opChar = "%" -> Ok(input, "modulo")
          [] OTHER -> unrecoverableError(<<"Unknown binary operator: ", opChar>>, input)

\* BinaryOpExpression{ binaryOperator, std::move(currentHead), std::move(nextTerm.result) }
SwappedBinaryOp(binaryOperator, currentHead, nextTerm) ==
    BinaryOpExpression(binaryOperator, nextTerm, currentHead)

MakeBinaryOp(binaryOperator, currentHead, nextTerm) ==
    BinaryOpExpression(binaryOperator, currentHead, nextTerm)

IsOperatorChar(c) == c = "+" \/ c = "-" \/ c = "*" \/ c = "/" \/ c = "%"

RECURSIVE parseExpressionTerms(_)
RECURSIVE parseTerm(_)
RECURSIVE parseFunctionCall(_)
RECURSIVE parseOperatorLoop(_, _, _)

parseFunctionCall(input) ==
    LET funcName == parseIdentifier(input)
    IN
    IF ~funcName.ok THEN NotOk
    ELSE
    LET parStart == parseLiteral(skipWhitespace(funcName.remaining), <<"(">>)
    IN
    IF ~parStart.ok THEN NotOk
    ELSE
    LET parStartWRemInput == skipWhitespace(parStart.remaining)
        emptyParLiteral == parseLiteral(parStartWRemInput, <<")">>)
    IN
    IF emptyParLiteral.ok
    THEN Ok(skipWhitespace(emptyParLiteral.remaining),
            Expression(View(input.full, input.pos, emptyParLiteral.remaining.pos),
                       FunctionCall(funcName.result, <<>>)))
    ELSE
    LET direction == parseParameterDirection(parStartWRemInput)
    IN
    IF direction.thrown THEN direction
    ELSE IF ~direction.ok
    THEN unrecoverableError(<<"Expected parameter direction">>, parStartWRemInput)
    ELSE
    LET directionWhitespace == parseWhitespace(direction.remaining)
    IN
    IF ~directionWhitespace.ok
    THEN unrecoverableError(<<"Expected parameter direction followed by whitespace">>,
                            direction.remaining)
    ELSE
    LET parameterName == parseIdentifier(directionWhitespace.remaining)
    IN
    IF ~parameterName.ok
    THEN unrecoverableError(<<"Expected parameter name">>, directionWhitespace.remaining)
    ELSE
    LET parameterWRemInput == skipWhitespace(parameterName.remaining)
        colonLiteral == parseLiteral(parameterWRemInput, <<":">>)
    IN
    IF ~colonLiteral.ok
    THEN unrecoverableError(<<"Expected colon between parameter name and value">>,
                            parameterWRemInput)
    ELSE
    LET colonLiteralWRemInput == skipWhitespace(colonLiteral.remaining)
    IN
    Let(parseExpressionTerms(colonLiteralWRemInput), LAMBDA argumentExpr :
    IF argumentExpr.thrown THEN argumentExpr
    ELSE IF ~argumentExpr.ok
    THEN unrecoverableError(<<"Expected argument expression">>, colonLiteralWRemInput)
    ELSE IF parseLiteral(argumentExpr.remaining, <<",">>).ok
    THEN unrecoverableError(<<"Multiple arguments not implemented">>, argumentExpr.remaining)
    ELSE
    LET closeParLiteral == parseLiteral(argumentExpr.remaining, <<")">>)
    IN
    IF ~closeParLiteral.ok
    THEN unrecoverableError(<<"Expected closing parenthesis">>, argumentExpr.remaining)
    ELSE Ok(skipWhitespace(closeParLiteral.remaining),
            Expression(View(input.full, input.pos, closeParLiteral.remaining.pos),
                       FunctionCall(funcName.result,
                                    <<FuncArgument(parameterName.result, direction.result,
                                                   argumentExpr.result)>>))))

parseTerm(input) ==
    LET parStart == parseLiteral(input, <<"(">>)
    IN
    IF parStart.ok
    THEN Let(parseExpressionTerms(skipWhitespace(parStart.remaining)), LAMBDA innerExpr :
         IF innerExpr.thrown THEN innerExpr
         ELSE IF ~innerExpr.ok
         THEN unrecoverableError(<<"Expected inner expression">>, parStart.remaining)
         ELSE LET parEnd == parseLiteral(innerExpr.remaining, <<")">>)
              IN  IF ~parEnd.ok
                  THEN unrecoverableError(<<"Expected closing parenthesis">>,
                                          innerExpr.remaining)
                  ELSE Ok(parEnd.remaining, innerExpr.result))
    ELSE
    Let(parseFunctionCall(input), LAMBDA functionCallExpr :
    IF functionCallExpr.thrown \/ functionCallExpr.ok THEN functionCallExpr
    ELSE
    LET varExpression == parseVarExpression(input)
    IN
    IF varExpression.ok THEN varExpression
    ELSE parseNumberWithType(input))

\* the while loop of parseExpressionTerms; input is the input of
\* parseExpressionTerms, where every rep of the chain starts
parseOperatorLoop(input, currentHead, currentRemainingInput) ==
    IF ~(~CurEmpty(currentRemainingInput) /\ IsOperatorChar(CurAt(currentRemainingInput, 0)))
    THEN Ok(currentRemainingInput, currentHead)
    ELSE
    LET binaryOperator == parseBinaryOperator(currentRemainingInput)
    IN
    IF binaryOperator.thrown THEN binaryOperator
    ELSE
    LET tail == skipWhitespace(consume(currentRemainingInput, 1))
    IN
    Let(parseTerm(tail), LAMBDA nextTerm :
    IF nextTerm.thrown THEN nextTerm
    ELSE IF ~nextTerm.ok
    THEN unrecoverableError(<<"Expected a right-hand side term for binary operator">>, tail)
    ELSE
    LET binaryOpExpression == Expression(trim(View(input.full, input.pos, nextTerm.remaining.pos)),
            MakeBinaryOp(binaryOperator.result, currentHead, nextTerm.result))
    IN  parseOperatorLoop(input, binaryOpExpression, skipWhitespace(nextTerm.remaining)))

parseExpressionTerms(input) ==
    Let(parseTerm(input), LAMBDA firstTerm :
    IF firstTerm.thrown THEN firstTerm
    ELSE IF ~firstTerm.ok
    THEN unrecoverableError(<<"Expected an expression term">>, input)
    ELSE parseOperatorLoop(input, firstTerm.result, skipWhitespace(firstTerm.remaining)))

parseExpression(input) ==
    LET varIdentifier == parseIdentifier(input)
    IN
    IF ~varIdentifier.ok
    THEN unrecoverableError(<<"Expected identifier at start of expression">>, input)
    ELSE
    LET identifierWRemInput == skipWhitespace(varIdentifier.remaining)
    IN
    IF ~StartsWith(identifierWRemInput, <<"=">>)
    THEN unrecoverableError(<<"Expected assignment after var">>, identifierWRemInput)
    ELSE
    LET assignmentWRemInput == skipWhitespace(consume(identifierWRemInput, 1))
    IN
    Let(parseExpressionTerms(assignmentWRemInput), LAMBDA valueExpr :
    IF valueExpr.thrown THEN valueExpr
    ELSE IF ~valueExpr.ok
    THEN unrecoverableError(<<"Failed to parse expression terms">>, assignmentWRemInput)
    ELSE IF ~StartsWith(valueExpr.remaining, <<";">>)
    THEN unrecoverableError(<<"Expected assignment to be followed by ';'">>,
                            valueExpr.remaining)
    ELSE
    LET leftOver == consume(valueExpr.remaining, 1)
    IN  Ok(skipWhitespace(leftOver),
           Expression(trim(View(input.full, input.pos, leftOver.pos)),
                      InitAssignment(varIdentifier.result, valueExpr.result))))

(***************************************************************************)
(* parser.cpp: function bodies, definitions, parse                         *)
(***************************************************************************)
\* the while loop of parseFunctionBody
RECURSIVE parseBodyExpressions(_, _)
parseBodyExpressions(remainingInput, expressions) ==
    IF ~(~CurEmpty(remainingInput) /\ ~StartsWith(remainingInput, <<"}">>))
    THEN Ok(remainingInput, expressions)
    ELSE
    Let(parseExpression(remainingInput), LAMBDA expression :
    IF expression.thrown THEN expression
    ELSE IF ~expression.ok
    THEN unrecoverableError(<<"Expected an expression in function body">>, remainingInput)
    ELSE parseBodyExpressions(expression.remaining, Append(expressions, expression.result)))

parseFunctionBody(input) ==
    IF ~StartsWith(input, <<"{">>)
    THEN unrecoverableError(<<"Missing '{' at start of function">>, input)
    ELSE
    Let(parseBodyExpressions(skipWhitespace(consume(input, 1)), <<>>), LAMBDA body :
    IF body.thrown THEN body
    ELSE
    LET remainingInput == body.remaining
        expressions == body.result
    IN
    IF ~StartsWith(remainingInput, <<"}">>)
    THEN unrecoverableError(<<"Missing '}' at end of function">>, remainingInput)
    ELSE
    LET leftOverInput == skipWhitespace(consume(remainingInput, 1))
    IN
    IF Len(expressions) = 1 THEN Ok(leftOverInput, expressions[1])
    ELSE IF expressions = <<>>
    THEN unrecoverableError(<<"Empty function body not implemented">>, remainingInput)
    ELSE unrecoverableError(<<"Function body with multiple expressions not implemented">>,
                            input))

\* the name == "main" block of parseDefinition; mainFunc is the function just
\* appended to program.functions
MainAtTypeLocation(program, mainFunc, assignmentWRemInput, nameInput, remainingInput) ==
    IF program.functions[mainFunc].name = s_main
    THEN IF ~isMainFuncType(program.types, program.types[program.functions[mainFunc].type])
         THEN unrecoverableError(<<"Wrong type for main">>, assignmentWRemInput)
         ELSE IF program.mainFunction # 0
         THEN unrecoverableError(<<"Multiple main functions found">>, assignmentWRemInput)
         ELSE OkP(remainingInput, mainFunc, [program EXCEPT !.mainFunction = mainFunc])
    ELSE OkP(remainingInput, mainFunc, program)

MainUnchecked(program, mainFunc, assignmentWRemInput, nameInput, remainingInput) ==
    IF program.functions[mainFunc].name = s_main
    THEN OkP(remainingInput, mainFunc, [program EXCEPT !.mainFunction = mainFunc])
    ELSE OkP(remainingInput, mainFunc, program)

registerMain(program, mainFunc, assignmentWRemInput, nameInput, remainingInput) ==
    IF program.functions[mainFunc].name = s_main
    THEN IF ~isMainFuncType(program.types, program.types[program.functions[mainFunc].type])
         THEN unrecoverableError(<<"Wrong type for main">>, assignmentWRemInput)
         ELSE IF program.mainFunction # 0
         THEN unrecoverableError(<<"Multiple main functions found">>, nameInput)
         ELSE OkP(remainingInput, mainFunc, [program EXCEPT !.mainFunction = mainFunc])
    ELSE OkP(remainingInput, mainFunc, program)

parseDefinition(program, input) ==
    LET lineWRemInput == skipWhitespace(input)
        defLiteral == parseLiteral(lineWRemInput, s_def)
        defWhitespace == parseWhitespace(defLiteral.remaining)
    IN
    IF ~defLiteral.ok \/ ~defWhitespace.ok
    THEN unrecoverableError(<<"Invalid syntax">>, input)
    ELSE
    LET defIdentifier == parseIdentifier(defWhitespace.remaining)
    IN
    IF ~defIdentifier.ok
    THEN unrecoverableError(<<"Missing name after def">>, defWhitespace.remaining)
    ELSE
    LET identifierWRemInput == skipWhitespace(defIdentifier.remaining)
        assignmentLiteral == parseLiteral(identifierWRemInput, <<"=">>)
    IN
    IF ~assignmentLiteral.ok
    THEN unrecoverableError(<<"Missing assignment in def">>, identifierWRemInput)
    ELSE
    LET assignmentWRemInput == skipWhitespace(assignmentLiteral.remaining)
    IN
    Let(parseType(program, assignmentWRemInput), LAMBDA type :
    IF type.thrown THEN type
    ELSE IF ~type.ok
    THEN unrecoverableError(<<"Unable to parse type">>, assignmentWRemInput)
    ELSE
    Let(parseFunctionBody(type.remaining), LAMBDA functionBody :
    IF functionBody.thrown THEN functionBody
    ELSE IF ~functionBody.ok
    THEN unrecoverableError(<<"Failed to parse function body">>, type.remaining)
    ELSE
    LET funcBodyWRemInput == skipWhitespace(functionBody.remaining)
    IN
    IF ~StartsWith(funcBodyWRemInput, <<";">>)
    THEN unrecoverableError(<<"Invalid def end">>, funcBodyWRemInput)
    ELSE
    LET remainingInput == skipWhitespace(consume(funcBodyWRemInput, 1))
        mainFunc == Function(defIdentifier.result, input.name, type.result, functionBody.result)
        added == [type.program EXCEPT !.functions = Append(@, mainFunc)]
    IN  registerMain(added, Len(added.functions), assignmentWRemInput,
                     defWhitespace.remaining, remainingInput)))

\* the while loop of parse
RECURSIVE parseDefinitions(_, _)
parseDefinitions(program, remainingInput) ==
    IF CurEmpty(remainingInput) THEN OkP(remainingInput, <<>>, program)
    ELSE
    Let(parseDefinition(program, remainingInput), LAMBDA funcDef :
    IF funcDef.thrown THEN funcDef
    ELSE IF ~funcDef.ok
    THEN unrecoverableError(<<"Failed to parse definition">>, remainingInput)
    ELSE parseDefinitions(funcDef.program, funcDef.remaining))

\* Program parse(std::string_view input, std::string_view name): either the
\* Program, or the std::runtime_error thrown, with its message
parse(input, name) ==
    Let(parseDefinitions(EmptyProgram, [pos |-> 0, full |-> input, name |-> name]), LAMBDA definitions :
    IF definitions.thrown
    THEN [ok |-> FALSE, what |-> definitions.what, program |-> EmptyProgram]
    ELSE IF definitions.program.mainFunction = 0
    THEN [ok |-> FALSE, what |-> <<"No main function">>, program |-> EmptyProgram]
    ELSE [ok |-> TRUE, what |-> <<>>, program |-> definitions.program])

(***************************************************************************)
(* interpreter.cpp.  An evaluation yields a set of outcomes: one outcome   *)
(* where the C++ is defined, and every outcome a build can produce where   *)
(* the C++ has undefined behaviour (signed overflow, division by zero).    *)
(*   st = "value": returned normally                                       *)
(*   st = "error": a std::exception was thrown, what is its message        *)
(*   st = "trap" : undefined behaviour ended the process (SIGFPE, a        *)
(*                 trapping overflow check)                                *)
(*   st = "stack": the recursion went deeper than MaxCallDepth frames      *)
(***************************************************************************)
Local(name, value) == [name |-> name, value |-> value]
ParameterValue(name, value) == [name |-> name, value |-> value]
Frame(locals) == [locals |-> locals]

Value(type, value, frame) ==
    [st |-> "value", type |-> type, value |-> value, frame |-> frame, what |-> <<>>]
Error(what) ==
    [st |-> "error", type |-> "", value |-> 0, frame |-> Frame(<<>>), what |-> what]
Trap == [st |-> "trap", type |-> "", value |-> 0, frame |-> Frame(<<>>), what |-> <<>>]
StackExhausted ==
    [st |-> "stack", type |-> "", value |-> 0, frame |-> Frame(<<>>), what |-> <<>>]

\* std::int32_t arithmetic.  Every intermediate value stays inside the
\* 32-bit range, so that the width of the type is part of the model.
AddFits(a, b) == IF b >= 0 THEN a <= I32Max - b ELSE a >= I32Min - b
SubFits(a, b) == IF b >= 0 THEN a >= I32Min + b ELSE a <= I32Max + b
\* the sum and the difference modulo 2^32, as two's complement
AddWrap(a, b) ==
    IF AddFits(a, b) THEN a + b
    ELSE IF b > 0 THEN (a + I32Min) + (b + I32Min)
    ELSE (a - I32Min) + (b - I32Min)
SubWrap(a, b) ==
    IF SubFits(a, b) THEN a - b
    ELSE IF b < 0 THEN (a + I32Min) - (b - I32Min)
    ELSE (a - I32Min) - (b + I32Min)
\* the product modulo 2^32, from the 16-bit halves of a and b
Low16(n) == n % 65536
High16(n) == (n - Low16(n)) \div 65536
MulWrap(a, b) ==
    LET al == Low16(a)
        bl == Low16(b)
        p0 == al * (bl % 256)
        p1 == al * (bl \div 256)
        low == (p1 % 256) * 256 + p0
        carry == (p1 \div 256) + (low \div 65536)
        high == (carry + ((High16(a) * bl) % 65536) + ((al * High16(b)) % 65536)) % 65536
    IN  (IF high >= 32768 THEN high - 65536 ELSE high) * 65536 + (low % 65536)
MulFits(a, b) ==
    CASE a = 0 \/ b = 0 -> TRUE
      [] a > 0 /\ b > 0 -> a <= I32Max \div b
      [] a > 0 /\ b < 0 -> b >= (I32Min + (a - 1)) \div a
      [] a < 0 /\ b > 0 -> a >= (I32Min + (b - 1)) \div b
      [] a < 0 /\ b < 0 -> a # I32Min /\ b # I32Min /\ (0 - a) <= I32Max \div (0 - b)

\* built-in / and % of C++ where they are defined (b # 0, and not
\* INT_MIN / -1): the quotient truncated toward zero, and the remainder
\* a - b * (a / b)
FlooredDiv(a, b) == a \div b
TruncDiv(a, b) ==
    CASE a >= 0 /\ b > 0 -> a \div b
      [] a < 0 /\ b > 0 -> (a + (b - 1)) \div b
      [] a >= 0 /\ b < 0 -> (a + b + 1) \div b
      [] a < 0 /\ b < 0 -> a \div b
TruncRem(a, b) == a - b * TruncDiv(a, b)
QuotientFits(a, b) == ~(a = I32Min /\ b = -1)

\* what an expression with undefined behaviour can do: end the process, or
\* carry on with the value the machine instruction left
Undefined(value) == {[st |-> "trap", value |-> 0], [st |-> "value", value |-> value]}
Defined(value) == {[st |-> "value", value |-> value]}

\* the switch of operator()(BinaryOpExpression const&): std::int32_t
\* arithmetic on lhsValue and rhsValue, with no check before it
ApplyBinaryOperator(op, lhsValue, rhsValue) ==
    CASE op = "add" ->
            IF AddFits(lhsValue, rhsValue) THEN Defined(lhsValue + rhsValue)
            ELSE Undefined(AddWrap(lhsValue, rhsValue))
      [] op = "subtract" ->
            IF SubFits(lhsValue, rhsValue) THEN Defined(lhsValue - rhsValue)
            ELSE Undefined(SubWrap(lhsValue, rhsValue))
      [] op = "multiply" ->
            IF MulFits(lhsValue, rhsValue) THEN Defined(lhsValue * rhsValue)
            ELSE Undefined(MulWrap(lhsValue, rhsValue))
      [] op = "divide" ->
            IF rhsValue = 0 THEN Undefined(0)
            ELSE IF ~QuotientFits(lhsValue, rhsValue) THEN Undefined(I32Min)
            ELSE Defined(TruncDiv(lhsValue, rhsValue))
      [] op = "modulo" ->
            IF rhsValue = 0 THEN Undefined(lhsValue)
            ELSE IF ~QuotientFits(lhsValue, rhsValue) THEN Undefined(0)
            ELSE Defined(TruncRem(lhsValue, rhsValue))
      [] OTHER -> {[st |-> "error", value |-> 0]}

\* std::ranges::find over a vector of {name, value}: the first index with the
\* name, 0 when there is none
RECURSIVE FindByName(_, _, _)
FindByName(entries, name, i) ==
    IF i > Len(entries) THEN 0
    ELSE IF entries[i].name = name THEN i
    ELSE FindByName(entries, name, i + 1)

\* the for loop of executeFunction over funcType.parameters that fills
\* frame.locals; the first failing parameter throws
RECURSIVE BuildLocals(_, _, _, _, _, _)
BuildLocals(types, parameters, i, inArgs, outArgs, locals) ==
    IF i > Len(parameters) THEN [thrown |-> FALSE, what |-> <<>>, locals |-> locals]
    ELSE
    LET funcParam == parameters[i]
        paramType == types[funcParam.type]
    IN
    IF paramType.t.k # "BuiltInType"
    THEN [thrown |-> TRUE, locals |-> <<>>,
          what |-> <<"Only built in types supported as parameter types: ">>]
    ELSE IF paramType.t.name # s_i32
    THEN [thrown |-> TRUE, locals |-> <<>>, what |-> <<"Only i32 support is implemented: ">>]
    ELSE IF funcParam.direction = "in"
    THEN LET argIt == FindByName(inArgs, funcParam.name, 1)
         IN  IF argIt = 0
             THEN [thrown |-> TRUE, locals |-> <<>>,
                   what |-> <<"No arg provided for param  \"">> \o funcParam.name
                            \o <<"\"">>]
             ELSE BuildLocals(types, parameters, i + 1, inArgs, outArgs,
                              Append(locals, Local(funcParam.name, inArgs[argIt].value)))
    ELSE IF funcParam.direction = "out"
    THEN LET argIt == FindByName(outArgs, funcParam.name, 1)
         IN  IF argIt = 0
             THEN [thrown |-> TRUE, locals |-> <<>>,
                   what |-> <<"No arg provided for param  \"">> \o funcParam.name
                            \o <<"\"">>]
             ELSE BuildLocals(types, parameters, i + 1, inArgs, outArgs,
                              Append(locals, Local(funcParam.name, 0)))
    ELSE [thrown |-> TRUE, locals |-> <<>>,
          what |-> <<"Unknown (inout?) parameter direction not implemented">>]

\* the closing for loop of executeFunction left out: the out arguments keep
\* the values the caller put in them
KeepOutArgs(outArgs, locals, i) == [thrown |-> FALSE, outArgs |-> outArgs]

\* the closing for loop of executeFunction: every out argument takes the
\* value of the local of its name
RECURSIVE CopyOutArgs(_, _, _)
CopyOutArgs(outArgs, locals, i) ==
    IF i > Len(outArgs) THEN [thrown |-> FALSE, outArgs |-> outArgs]
    ELSE LET localIt == FindByName(locals, outArgs[i].name, 1)
         IN  IF localIt = 0 THEN [thrown |-> TRUE, outArgs |-> outArgs]
             ELSE CopyOutArgs([outArgs EXCEPT ![i].value = locals[localIt].value],
                              locals, i + 1)

\* the second for loop of operator()(FunctionCall const&): one zeroed slot per
\* out parameter of the callee
RECURSIVE OutSlots(_, _)
OutSlots(parameters, i) ==
    IF i > Len(parameters) THEN <<>>
    ELSE IF parameters[i].direction = "out"
    THEN <<ParameterValue(parameters[i].name, 0)>> \o OutSlots(parameters, i + 1)
    ELSE OutSlots(parameters, i + 1)

\* the search that keeps the last function of the name
RECURSIVE FindLastFunction(_, _, _)
FindLastFunction(functions, functionName, i) ==
    IF i > Len(functions) THEN 0
    ELSE LET later == FindLastFunction(functions, functionName, i + 1)
         IN  IF later # 0 THEN later
             ELSE IF functions[i].name = functionName THEN i
             ELSE 0

\* std::ranges::find_if over program.functions by name
RECURSIVE FindFunction(_, _, _)
FindFunction(functions, functionName, i) ==
    IF i > Len(functions) THEN 0
    ELSE IF functions[i].name = functionName THEN i
    ELSE FindFunction(functions, functionName, i + 1)

\* operator()(BinaryOpExpression const&) from the outcome l of the evaluation
\* of binaryOp.lhs on: the statement that evaluates binaryOp.rhs (outcomes
\* rhs) is reached only when the one before it returned
RhsFailureFirst(op, l, rhs) ==
    UNION { IF r.st # "value" THEN {r}
            ELSE IF l.st # "value" THEN {l}
            ELSE IF l.type # "i32" \/ r.type # "i32"
            THEN {Error(<<"Unexpected types for addition: ", l.type, ", ", r.type>>)}
            ELSE { IF o.st = "value" THEN Value(l.type, o.value, r.frame)
                   ELSE IF o.st = "trap" THEN Trap
                   ELSE Error(<<"Unexpected binary operator: ">>)
                   : o \in ApplyBinaryOperator(op, l.value, r.value) }
            : r \in rhs }

EvaluateOperands(op, l, rhs) ==
    IF l.st # "value" THEN {l}
    ELSE UNION { IF r.st # "value" THEN {r}
                 ELSE IF l.type # "i32" \/ r.type # "i32"
                 THEN {Error(<<"Unexpected types for addition: ", l.type, ", ", r.type>>)}
                 ELSE { IF o.st = "value" THEN Value(l.type, o.value, r.frame)
                        ELSE IF o.st = "trap" THEN Trap
                        ELSE Error(<<"Unexpected binary operator: ">>)
                        : o \in ApplyBinaryOperator(op, l.value, r.value) }
                 : r \in rhs }

\* the outcome of a call when running out of stack were an error to catch
CallOutcomeCaught(st, outArgs, what) ==
    [st |-> IF st = "stack" THEN "error" ELSE st, outArgs |-> outArgs, what |-> what]

\* what executeFunction leaves: it returned with the out arguments written
\* ("value"), threw what ("error"), ran into undefined behaviour ("trap"), or
\* its calls never came back and used up the stack ("stack")
CallOutcome(st, outArgs, what) == [st |-> st, outArgs |-> outArgs, what |-> what]

RECURSIVE evaluateExpression(_, _, _, _)
RECURSIVE executeFunction(_, _, _, _, _)
RECURSIVE EvaluateInArgs(_, _, _, _, _, _)

\* the first for loop of operator()(FunctionCall const&): outcomes
\* [st, frame, inArgs, what]
EvaluateInArgs(program, frame, arguments, i, inArgs, depth) ==
    IF i > Len(arguments)
    THEN {[st |-> "value", frame |-> frame, inArgs |-> inArgs, what |-> <<>>]}
    ELSE
    LET arg == arguments[i]
    IN
    IF arg.direction = "in"
    THEN UNION {
            IF r.st # "value"
            THEN {[st |-> r.st, frame |-> frame, inArgs |-> inArgs, what |-> r.what]}
            ELSE IF r.type # "i32"
            THEN {[st |-> "error", frame |-> frame, inArgs |-> inArgs,
                   what |-> <<"Only i32 is implemented">>]}
            ELSE EvaluateInArgs(program, r.frame, arguments, i + 1,
                                Append(inArgs, ParameterValue(arg.name, r.value)), depth)
            : r \in evaluateExpression(program, frame, arg.expr, depth) }
    ELSE IF arg.direction = "out"
    THEN {[st |-> "error", frame |-> frame, inArgs |-> inArgs,
           what |-> <<"Named output arguments not implemented">>]}
    ELSE {[st |-> "error", frame |-> frame, inArgs |-> inArgs,
           what |-> <<"Unknown direction (inout?) when calling function not implemented">>]}

evaluateExpression(program, frame, expr, depth) ==
    LET e == expr.expr
    IN
    CASE e.k = "Literal" -> {Value("i32", e.value, frame)}
      [] e.k = "InitAssignment" ->
            LET localIt == FindByName(frame.locals, e.var, 1)
            IN  IF localIt = 0 THEN {Error(<<"Undeclared variable: ">> \o e.var)}
                ELSE { IF r.st # "value" THEN r
                       ELSE IF r.type # "i32"
                       THEN Error(<<"Unexpected expression result type: ", r.type>>)
                       ELSE Value("", 0,
                                  [r.frame EXCEPT !.locals[localIt].value = r.value])
                       : r \in evaluateExpression(program, frame, e.value, depth) }
      [] e.k = "BinaryOpExpression" ->
            UNION { EvaluateOperands(e.op, l,
                                     evaluateExpression(program, l.frame, e.rhs, depth))
                    : l \in evaluateExpression(program, frame, e.lhs, depth) }
      [] e.k = "FunctionCall" ->
            LET funcIt == FindFunction(program.functions, e.functionName, 1)
            IN
            IF funcIt = 0 THEN {Error(<<"Couldn't find function ">> \o e.functionName)}
            ELSE
            LET function == program.functions[funcIt]
            IN
            UNION { IF a.st = "error" THEN {Error(a.what)}
                    ELSE IF a.st = "trap" THEN {Trap}
                    ELSE IF a.st = "stack" THEN {StackExhausted}
                    ELSE IF program.types[function.type].t.k # "FuncType"
                    THEN {Error(<<"bad_variant_access">>)}
                    ELSE
                    LET outArgs == OutSlots(program.types[function.type].t.parameters, 1)
                    IN  { IF c.st = "error" THEN Error(c.what)
                          ELSE IF c.st = "trap" THEN Trap
                          ELSE IF c.st = "stack" THEN StackExhausted
                          ELSE IF c.outArgs = <<>> THEN Value("", 0, a.frame)
                          ELSE IF Len(c.outArgs) = 1 THEN Value("i32", c.outArgs[1].value, a.frame)
                          ELSE Error(<<"Multiple out args not implemented">>)
                          : c \in executeFunction(program, function, a.inArgs, outArgs,
                                                  depth + 1) }
                    : a \in EvaluateInArgs(program, frame, e.arguments, 1, <<>>, depth) }
      [] e.k = "VarExpression" ->
            LET localIt == FindByName(frame.locals, e.varName, 1)
            IN  IF localIt = 0
                THEN {Error(<<"Local \"">> \o e.varName \o <<"\" not found">>)}
                ELSE {Value("i32", frame.locals[localIt].value, frame)}

\* void State::executeFunction(func, inArgs, outArgs): outcomes [st, outArgs, what]
executeFunction(program, func, inArgs, outArgs, depth) ==
    IF depth > MaxCallDepth THEN {CallOutcome("stack", outArgs, <<>>)}
    ELSE IF program.types[func.type].t.k # "FuncType"
    THEN {CallOutcome("error", outArgs, <<"bad_variant_access">>)}
    ELSE
    LET funcType == program.types[func.type].t
        built == BuildLocals(program.types, funcType.parameters, 1, inArgs, outArgs, <<>>)
    IN
    IF built.thrown THEN {CallOutcome("error", outArgs, built.what)}
    ELSE IF Len(funcType.parameters) # Len(built.locals)
    THEN {CallOutcome("error", outArgs, <<"Arg count doesn't match parameter count">>)}
    ELSE { IF r.st # "value" THEN CallOutcome(r.st, outArgs, r.what)
           ELSE IF r.type # ""
           THEN CallOutcome("error", outArgs,
                            <<"Function expression should not return a value">>)
           ELSE LET copied == CopyOutArgs(outArgs, r.frame.locals, 1)
                IN  IF copied.thrown
                    THEN CallOutcome("error", outArgs, <<"Local missing">>)
                    ELSE CallOutcome("value", copied.outArgs, <<>>)
           : r \in evaluateExpression(program, Frame(built.locals), func.expression, depth) }

\* std::int32_t execute(Program const& program): outcomes [st, value, what]
execute(program) ==
    IF program.mainFunction = 0
    THEN {[st |-> "error", value |-> 0, what |-> <<"Missing main function">>]}
    ELSE { [st |-> c.st, value |-> IF c.st = "value" THEN c.outArgs[1].value ELSE 0,
            what |-> c.what]
           : c \in executeFunction(program, program.functions[program.mainFunction], <<>>,
                                   <<ParameterValue(s_exitCode, 0)>>, 1) }

(***************************************************************************)
(* wasm.cpp: the emitter.  A byte is a number in 0..255, the sink a        *)
(* sequence of bytes.  The writers return the bytes they put into the      *)
(* stream; the ones that can throw return [thrown, what, bytes].           *)
(***************************************************************************)
\* asBytes(std::string_view): the bytes of the names the emitter writes,
\* which are made of lower-case letters, digits and '_'
AsciiLetters == <<"a","b","c","d","e","f","g","h","i","j","k","l","m",
                  "n","o","p","q","r","s","t","u","v","w","x","y","z">>
asByte(c) ==
    IF c = "_" THEN 95
    ELSE IF c \in Digits THEN 48 + DigitValue(c)
    ELSE 96 + (CHOOSE i \in 1..26 : AsciiLetters[i] = c)
asBytes(str) == [i \in 1..Len(str) |-> asByte(str[i])]

s_start == <<"_","s","t","a","r","t">>
s_generated == <<"g","e","n","e","r","a","t","e","d">>
s_memory == <<"m","e","m","o","r","y">>
s_proc_exit == <<"p","r","o","c","_","e","x","i","t">>
s_wasi == <<"w","a","s","i","_","s","n","a","p","s","h","o","t","_",
            "p","r","e","v","i","e","w","1">>

\* static constexpr std::array magic, version
writeMagic == <<0, 97, 115, 109>>
writeVersion == <<1, 0, 0, 0>>

\* void writeULEB128(std::ostream&, std::uint32_t value)
RECURSIVE writeULEB128(_)
writeULEB128(value) ==
    IF value >= 128
    THEN <<128 + (value % 128)>> \o writeULEB128(value \div 128)
    ELSE <<value>>

\* (unsignedValue ^ flipper), its low seven bits
FlippedLow7(unsignedValue, negative) ==
    IF negative THEN 127 - (unsignedValue % 128) ELSE unsignedValue % 128

\* the loop of writeSLEB128 running while a seventh bit is left
RECURSIVE SLEB128LoopTo7Bits(_, _)
SLEB128LoopTo7Bits(unsignedValue, negative) ==
    IF unsignedValue >= 128
    THEN <<128 + FlippedLow7(unsignedValue, negative)>>
         \o SLEB128LoopTo7Bits(unsignedValue \div 128, negative)
    ELSE <<FlippedLow7(unsignedValue, negative)>>

\* the while loop and the closing writeByte of writeSLEB128
RECURSIVE SLEB128Loop(_, _)
SLEB128Loop(unsignedValue, negative) ==
    IF unsignedValue >= 64
    THEN <<128 + FlippedLow7(unsignedValue, negative)>>
         \o SLEB128Loop(unsignedValue \div 128, negative)
    ELSE <<FlippedLow7(unsignedValue, negative)>>

\* void writeSLEB128(std::ostream&, std::int32_t value): unsignedValue is
\* bit_cast<uint32_t>(value) ^ flipper, that is value, or -value - 1 for a
\* negative value
writeSLEB128(value) ==
    IF value < 0 THEN SLEB128Loop((0 - 1) - value, TRUE)
    ELSE SLEB128Loop(value, FALSE)

writeVector(vector) == writeULEB128(Len(vector)) \o vector
writeName(name) == writeVector(asBytes(name))

\* writeSection without the length of the contents
SectionWithoutLength(sectionNumber, contents) == <<sectionNumber>> \o contents

writeSection(sectionNumber, contents) == <<sectionNumber>> \o writeVector(contents)

Written(bytes) == [thrown |-> FALSE, what |-> <<>>, bytes |-> bytes]
EmitError(what) == [thrown |-> TRUE, what |-> what, bytes |-> <<>>]

\* the i32 of the parameter of proc_exit is a Type of its own, outside the
\* vector of types: the reference DetachedI32 stands for it
DetachedI32 == 0
Deref(types, type) ==
    IF type = DetachedI32 THEN Type(<<>>, BuiltInType(s_i32)) ELSE types[type]

\* WasmFuncType translateFuncType(jereq::FuncType const&): the loop over
\* the parameters from parameter i on
RECURSIVE TranslateParameters(_, _, _, _, _)
TranslateParameters(types, parameters, i, inParameters, outParameters) ==
    IF i > Len(parameters)
    THEN IF Len(outParameters) > 1
         THEN [thrown |-> TRUE, what |-> <<"Multiple out parameters not supported yet">>,
               inParameters |-> <<>>, outParameters |-> <<>>]
         ELSE [thrown |-> FALSE, what |-> <<>>,
               inParameters |-> inParameters, outParameters |-> outParameters]
    ELSE
    LET parameter == parameters[i]
        t == Deref(types, parameter.type).t
    IN
    IF parameter.direction = "inout"
    THEN [thrown |-> TRUE, what |-> <<"inout parameter direction no supported yet">>,
          inParameters |-> <<>>, outParameters |-> <<>>]
    ELSE IF t.k # "BuiltInType"
    THEN [thrown |-> TRUE, what |-> <<"Only build-in types implemented">>,
          inParameters |-> <<>>, outParameters |-> <<>>]
    ELSE IF t.name # s_i32
    THEN [thrown |-> TRUE, what |-> <<"Built-in type ">> \o t.name \o <<" not implemented">>,
          inParameters |-> <<>>, outParameters |-> <<>>]
    ELSE IF parameter.direction = "out"
    THEN TranslateParameters(types, parameters, i + 1, inParameters,
                             Append(outParameters, 127))
    ELSE TranslateParameters(types, parameters, i + 1, Append(inParameters, 127),
                             outParameters)

translateFuncType(types, funcType) ==
    TranslateParameters(types, funcType.parameters, 1, <<>>, <<>>)

\* translateFuncTypes: wasmFuncTypes in the order of types, and translation
\* from the Type (its index in types) to its index in wasmFuncTypes
RECURSIVE TranslateFrom(_, _, _, _)
TranslateFrom(types, i, wasmFuncTypes, translation) ==
    IF i > Len(types)
    THEN [thrown |-> FALSE, what |-> <<>>,
          wasmFuncTypes |-> wasmFuncTypes, translation |-> translation]
    ELSE IF types[i].t.k # "FuncType"
    THEN TranslateFrom(types, i + 1, wasmFuncTypes, translation)
    ELSE LET wasmFuncType == translateFuncType(types, types[i].t)
         IN  IF wasmFuncType.thrown
             THEN [thrown |-> TRUE, what |-> wasmFuncType.what,
                   wasmFuncTypes |-> <<>>, translation |-> <<>>]
             ELSE TranslateFrom(types, i + 1,
                                Append(wasmFuncTypes, wasmFuncType),
                                Append(translation, <<i, Len(wasmFuncTypes)>>))

translateFuncTypes(types) == TranslateFrom(types, 1, <<>>, <<>>)

\* translation.find(type): the index in wasmFuncTypes, or NotFound
NotTranslated == -1
FindTranslation(translation, type) ==
    IF \E k \in 1..Len(translation) : translation[k][1] = type
    THEN translation[CHOOSE k \in 1..Len(translation) : translation[k][1] = type][2]
    ELSE NotTranslated

writeResultType(parameters) == writeVector(parameters)
writeType(funcType) ==
    <<96>> \o writeResultType(funcType.inParameters)
           \o writeResultType(funcType.outParameters)

RECURSIVE WriteTypes(_, _)
WriteTypes(wasmFuncTypes, i) ==
    IF i > Len(wasmFuncTypes) THEN <<>>
    ELSE writeType(wasmFuncTypes[i]) \o WriteTypes(wasmFuncTypes, i + 1)

writeTypeSection(typeTranslation) ==
    writeSection(1, writeULEB128(Len(typeTranslation.wasmFuncTypes))
                    \o WriteTypes(typeTranslation.wasmFuncTypes, 1))

ImportFunctionInformation(module, name, type) ==
    [module |-> module, name |-> name, type |-> type]
ExportFunctionInformation(exportName, function) ==
    [exportName |-> exportName, function |-> function]

writeImport(moduleName, functionName, typeIdx) ==
    writeName(moduleName) \o writeName(functionName) \o <<0>> \o writeULEB128(typeIdx)

\* translation.at(functionInfo.type) throws std::out_of_range for a type that
\* was not translated
RECURSIVE WriteImports(_, _, _)
WriteImports(importFunctionInfo, typeTranslation, i) ==
    IF i > Len(importFunctionInfo) THEN Written(<<>>)
    ELSE LET typeIdx == FindTranslation(typeTranslation.translation,
                                        importFunctionInfo[i].type)
             rest == WriteImports(importFunctionInfo, typeTranslation, i + 1)
         IN  IF typeIdx = NotTranslated THEN EmitError(<<"map::at">>)
             ELSE IF rest.thrown THEN rest
             ELSE Written(writeImport(importFunctionInfo[i].module,
                                      importFunctionInfo[i].name, typeIdx)
                          \o rest.bytes)

writeImportSection(importFunctionInfo, typeTranslation) ==
    LET imports == WriteImports(importFunctionInfo, typeTranslation, 1)
    IN  IF imports.thrown THEN imports
        ELSE Written(writeSection(2, writeULEB128(Len(importFunctionInfo))
                                     \o imports.bytes))

writeFunction(functionType, typeTranslation) ==
    LET iter == FindTranslation(typeTranslation.translation, functionType)
    IN  IF iter = NotTranslated THEN EmitError(<<"Function type not found">>)
        ELSE Written(writeULEB128(iter))

RECURSIVE WriteFunctions(_, _, _)
WriteFunctions(functions, typeTranslation, i) ==
    IF i > Len(functions) THEN Written(<<>>)
    ELSE LET function == writeFunction(functions[i].type, typeTranslation)
         IN  IF function.thrown THEN function
             ELSE LET rest == WriteFunctions(functions, typeTranslation, i + 1)
                  IN  IF rest.thrown THEN rest
                      ELSE Written(function.bytes \o rest.bytes)

writeFunctionSection(functions, typeTranslation) ==
    LET funcVec == WriteFunctions(functions, typeTranslation, 1)
    IN  IF funcVec.thrown THEN funcVec
        ELSE Written(writeSection(3, writeULEB128(Len(functions)) \o funcVec.bytes))

writeLimits == <<1>> \o writeULEB128(0) \o writeULEB128(1024)
writeMemory == writeLimits
writeMemorySection == writeSection(5, writeULEB128(1) \o writeMemory)

writeExportFunction(name, idx) == writeName(name) \o <<0>> \o writeULEB128(idx)
writeExportMemory == writeName(s_memory) \o <<2>> \o <<0>>

\* every function gets the index of the function before it
IndexWithoutImports(numImportFunctions, functions) ==
    [i \in 1..Len(functions) |-> i - 1]

\* Index createIndex(numImportFunctions, functions): the function (its place
\* in functions) to its function index
createIndex(numImportFunctions, functions) ==
    [i \in 1..Len(functions) |-> numImportFunctions + (i - 1)]

RECURSIVE WriteExports(_, _, _)
WriteExports(exportFunctionInfo, index, i) ==
    IF i > Len(exportFunctionInfo) THEN <<>>
    ELSE writeExportFunction(exportFunctionInfo[i].exportName,
                             index[exportFunctionInfo[i].function])
         \o WriteExports(exportFunctionInfo, index, i + 1)

writeExportSection(exportFunctionInfo, index) ==
    writeSection(7, writeULEB128(Len(exportFunctionInfo) + 1)
                    \o WriteExports(exportFunctionInfo, index, 1)
                    \o writeExportMemory)

writeLocals == writeVector(<<>>)

\* the functions named main: index.functions is a std::map ordered by the
\* address of the Function, and the loop of writeExpression stops at the
\* first of them in that order
NamedMain(functions) == {i \in 1..Len(functions) : functions[i].name = s_main}

\* writeExpression with the operands of an operator written rhs first
RECURSIVE ExpressionRhsFirst(_, _, _)
ExpressionRhsFirst(expression, index, firstMain) ==
    IF expression.rep = <<>>
    THEN IF firstMain = 0 THEN EmitError(<<"Expected to find main in index">>)
         ELSE Written(<<16>> \o writeULEB128(index[firstMain]) \o <<16>> \o <<0>>)
    ELSE
    LET e == expression.expr
        opcode == [add |-> 106, subtract |-> 107, multiply |-> 108, divide |-> 109,
                   modulo |-> 111]
    IN
    CASE e.k = "Literal" -> Written(<<65>> \o writeSLEB128(e.value))
      [] e.k = "InitAssignment" -> ExpressionRhsFirst(e.value, index, firstMain)
      [] e.k = "BinaryOpExpression" ->
            LET lhs == ExpressionRhsFirst(e.lhs, index, firstMain)
                rhs == ExpressionRhsFirst(e.rhs, index, firstMain)
            IN  IF lhs.thrown THEN lhs
                ELSE IF rhs.thrown THEN rhs
                ELSE IF e.op \in DOMAIN opcode
                THEN Written(rhs.bytes \o lhs.bytes \o <<opcode[e.op]>>)
                ELSE EmitError(<<"Operator not supported">>)
      [] OTHER -> EmitError(<<"Unexpected expression alternative">>)

\* void writeExpression(out, expression, index); firstMain is the function
\* named main that comes first in index.functions, 0 when there is none
RECURSIVE writeExpression(_, _, _)
writeExpression(expression, index, firstMain) ==
    IF expression.rep = <<>>
    THEN IF firstMain = 0 THEN EmitError(<<"Expected to find main in index">>)
         ELSE Written(<<16>> \o writeULEB128(index[firstMain]) \o <<16>> \o <<0>>)
    ELSE
    LET e == expression.expr
    IN
    CASE e.k = "Literal" -> Written(<<65>> \o writeSLEB128(e.value))
      [] e.k = "InitAssignment" -> writeExpression(e.value, index, firstMain)
      [] e.k = "BinaryOpExpression" ->
            LET lhs == writeExpression(e.lhs, index, firstMain)
            IN  IF lhs.thrown THEN lhs
                ELSE LET rhs == writeExpression(e.rhs, index, firstMain)
                     IN  IF rhs.thrown THEN rhs
                         ELSE CASE e.op = "add" -> Written(lhs.bytes \o rhs.bytes \o <<106>>)
                                [] e.op = "subtract" -> Written(lhs.bytes \o rhs.bytes \o <<107>>)
                                [] e.op = "multiply" -> Written(lhs.bytes \o rhs.bytes \o <<108>>)
                                [] e.op = "divide" -> Written(lhs.bytes \o rhs.bytes \o <<109>>)
                                [] e.op = "modulo" -> Written(lhs.bytes \o rhs.bytes \o <<111>>)
                                [] OTHER -> EmitError(<<"Operator not supported">>)
      [] OTHER -> EmitError(<<"Unexpected expression alternative">>)

writeCode(function, index, firstMain) ==
    LET body == writeExpression(function.expression, index, firstMain)
    IN  IF body.thrown THEN body
        ELSE Written(writeVector(writeLocals \o body.bytes \o <<11>>))

RECURSIVE WriteCodes(_, _, _, _)
WriteCodes(functions, index, firstMain, i) ==
    IF i > Len(functions) THEN Written(<<>>)
    ELSE LET code == writeCode(functions[i], index, firstMain)
         IN  IF code.thrown THEN code
             ELSE LET rest == WriteCodes(functions, index, firstMain, i + 1)
                  IN  IF rest.thrown THEN rest
                      ELSE Written(code.bytes \o rest.bytes)

writeCodeSection(functions, index, firstMain) ==
    LET codeVec == WriteCodes(functions, index, firstMain, 1)
    IN  IF codeVec.thrown THEN codeVec
        ELSE Written(writeSection(10, writeULEB128(Len(functions)) \o codeVec.bytes))

\* injectFunctions: the type and the function of _start, its export, the
\* type of proc_exit and its import
injectFunctions(types, functions) ==
    LET startType == Len(types) + 1
        procExitType == Len(types) + 2
        startFunc == Len(functions) + 1
    IN  [ types |-> types \o <<Type(<<>>, FuncType(<<>>, <<>>)),
                               Type(<<>>, FuncType(<<>>, <<FuncParameter(s_exitCode, "in",
                                                                         DetachedI32)>>))>>,
          functions |-> Append(functions,
                               Function(s_start, s_generated, startType,
                                        Expression(<<>>, Literal(0)))),
          importFunctionInfo |-> <<ImportFunctionInformation(s_wasi, s_proc_exit,
                                                             procExitType)>>,
          exportFunctionInfo |-> <<ExportFunctionInformation(s_start, startFunc)>> ]

\* how compile ended: it returned true or false, or threw; bytes is what
\* reached the sink
Compiled(st, bytes, what) == [st |-> st, bytes |-> bytes, what |-> what]

\* bool compile(Program const& program, std::ostream& out).  sinkGood: the
\* stream takes the bytes; a stream in a failed state takes none.
compile(program, sinkGood, firstMain) ==
    LET injected == injectFunctions(program.types, program.functions)
        typeTranslation == translateFuncTypes(injected.types)
        index == createIndex(Len(injected.importFunctionInfo), injected.functions)
        sink(bytes) == IF sinkGood THEN bytes ELSE <<>>
    IN
    IF typeTranslation.thrown THEN Compiled("error", <<>>, typeTranslation.what)
    ELSE
    LET header == writeMagic \o writeVersion \o writeTypeSection(typeTranslation)
        importSection == writeImportSection(injected.importFunctionInfo, typeTranslation)
    IN
    IF importSection.thrown THEN Compiled("error", sink(header), importSection.what)
    ELSE
    LET functionSection == writeFunctionSection(injected.functions, typeTranslation)
    IN
    IF functionSection.thrown
    THEN Compiled("error", sink(header \o importSection.bytes), functionSection.what)
    ELSE
    LET upToExports == header \o importSection.bytes \o functionSection.bytes
                       \o writeMemorySection
                       \o writeExportSection(injected.exportFunctionInfo, index)
        codeSection == writeCodeSection(injected.functions, index, firstMain)
    IN
    IF codeSection.thrown THEN Compiled("error", sink(upToExports), codeSection.what)
    ELSE IF sinkGood THEN Compiled("true", upToExports \o codeSection.bytes, <<>>)
    ELSE Compiled("false", <<>>, <<>>)

\* the vectors of the emitter are the vectors of the program
ProgramSharingVectors(program) ==
    LET injected == injectFunctions(program.types, program.functions)
    IN  [program EXCEPT !.types = injected.types, !.functions = injected.functions]

\* the Program of the caller once compile has ended, by return or by throw.
\* types and functions of compile are copies of the vectors of the program:
\* the emplace_back calls of injectFunctions lengthen the copies, and the
\* objects they make and write to are new ones.  The vectors of the program
\* hold the pointers they held, to the objects as they are afterwards.
ProgramAfterCompile(program) ==
    LET injected == injectFunctions(program.types, program.functions)
    IN  [program EXCEPT
            !.types = [i \in 1..Len(program.types) |-> injected.types[i]],
            !.functions = [i \in 1..Len(program.functions) |-> injected.functions[i]]]

(***************************************************************************)
(* The inputs.  An arithmetic scenario is the program                      *)
(*   def main = fun(out exitCode: i32) { exitCode = E; };                  *)
(* for a chain E of operands and operators; an operand is an i32 literal   *)
(* or a parenthesised chain.  A definitions scenario is a sequence of      *)
(* definitions taken from DefinitionTexts; a calls scenario is a main that *)
(* calls a function or reads a variable, with the functions it calls.      *)
(***************************************************************************)
FileName == "test.hobby"

Operators == {"add", "subtract", "multiply", "divide", "modulo"}
OperatorChar(op) ==
    CASE op = "add" -> "+"
      [] op = "subtract" -> "-"
      [] op = "multiply" -> "*"
      [] op = "divide" -> "/"
      [] op = "modulo" -> "%"

Lit(v) == [k |-> "lit", v |-> v, terms |-> <<>>, ops |-> <<>>]
Chain(terms, ops) == [k |-> "chain", v |-> 0, terms |-> terms, ops |-> ops]

ChainLiterals == {0, 3, I32Min}

FlatChains ==
    UNION { { Chain([i \in 1..n |-> Lit(ts[i])], os) :
                ts \in [1..n -> ChainLiterals], os \in [1..(n - 1) -> Operators] }
            : n \in 1..MaxTerms }

\* a op (b op c) and (a op b) op c
NestedChains ==
    UNION { { Chain(<<Lit(ts[1]), Chain(<<Lit(ts[2]), Lit(ts[3])>>, <<os[2]>>)>>, <<os[1]>>),
              Chain(<<Chain(<<Lit(ts[1]), Lit(ts[2])>>, <<os[1]>>), Lit(ts[3])>>, <<os[2]>>) }
            : ts \in [1..3 -> ChainLiterals], os \in [1..2 -> Operators] }

\* the expressions of the end-to-end scenarios 2 and 3, the quotient that
\* does not fit, 1 + 2 * 3, and ((1)) + 2 * 3
SampleChains ==
    { Chain(<<Lit(4), Lit(1), Lit(-3)>>, <<"add", "add">>),
      Chain(<<Lit(12310), Lit(100), Lit(3), Lit(2), Lit(-2), Lit(-7)>>,
            <<"modulo", "divide", "add", "multiply", "subtract">>),
      Chain(<<Lit(I32Min), Lit(-1)>>, <<"divide">>),
      Chain(<<Lit(1), Lit(2), Lit(3)>>, <<"add", "multiply">>),
      Chain(<<Chain(<<Chain(<<Lit(1)>>, <<>>)>>, <<>>), Lit(2), Lit(3)>>, <<"add", "multiply">>) }

\* the decimal digits of the magnitude of n, for n <= 0
RECURSIVE RenderMagnitude(_)
RenderMagnitude(n) ==
    IF n > -10 THEN <<DigitChars[(0 - n) + 1]>>
    ELSE LET q == (n + 9) \div 10
         IN  RenderMagnitude(q) \o <<DigitChars[(10 * q - n) + 1]>>
RenderInt(v) == IF v < 0 THEN <<"-">> \o RenderMagnitude(v) ELSE RenderMagnitude(0 - v)

RECURSIVE RenderChain(_)
RECURSIVE RenderOperand(_)
RECURSIVE RenderChainFrom(_, _)
RenderOperand(t) ==
    IF t.k = "lit" THEN RenderInt(t.v) \o s_i32
    ELSE <<"(">> \o RenderChain(t) \o <<")">>
RenderChainFrom(c, i) ==
    IF i > Len(c.terms) THEN <<>>
    ELSE <<SP, OperatorChar(c.ops[i - 1]), SP>> \o RenderOperand(c.terms[i])
         \o RenderChainFrom(c, i + 1)
RenderChain(c) == RenderOperand(c.terms[1]) \o RenderChainFrom(c, 2)

t_mainType == <<"f","u","n","(","o","u","t"," ","e","x","i","t","C","o","d","e",":"," ","i","3","2",")">>
t_arithHead == <<"d","e","f"," ","m","a","i","n"," ","="," ","f","u","n","(","o","u","t"," ","e","x","i","t","C","o","d","e",":"," ","i","3","2",")"," ","{"," ","e","x","i","t","C","o","d","e"," ","="," ">>
t_arithTail == <<";"," ","}",";">>

RenderArith(e) == t_arithHead \o RenderChain(e) \o t_arithTail

\* a definition is  lead "def " name " = " type " { " body " }" tail
DefinitionText(lead, name, type, body, tail) ==
    [lead |-> lead, name |-> name, type |-> type, body |-> body, tail |-> tail]

DefinitionTexts ==
    [ Main |-> DefinitionText(<<>>, s_main, t_mainType, <<"e","x","i","t","C","o","d","e"," ","="," ","0","i","3","2",";">>, <<";">>),
      MainTight |-> DefinitionText(<<NL>>, s_main, <<"f","u","n","(","o","u","t"," ","e","x","i","t","C","o","d","e",":","i","3","2",")">>, <<"e","x","i","t","C","o","d","e"," ","="," ","1","i","3","2",";">>, <<";", NL>>),
      MainOther |-> DefinitionText(<<SP>>, s_main, <<"f","u","n","(","o","u","t"," ","r",":"," ","i","3","2",")">>, <<"r"," ","="," ","0","i","3","2",";">>, <<";">>),
      F |-> DefinitionText(<<NL, SP, SP>>, <<"f">>, <<"f","u","n","(","o","u","t"," ","r",":"," ","i","3","2",")">>, <<"r"," ","="," ","1","i","3","2",";">>, <<";">>),
      FTight |-> DefinitionText(<<SP>>, <<"f">>, <<"f","u","n","(","o","u","t"," ","r",":","i","3","2",")">>, <<"r"," ","="," ","2","i","3","2",";">>, <<";", SP>>),
      Id |-> DefinitionText(<<NL>>, <<"i","d">>, <<"f","u","n","(","i","n"," ","x",":"," ","i","3","2",","," ","o","u","t"," ","r",":"," ","i","3","2",")">>, <<"r"," ","="," ","x",";">>, <<";">>),
      Unfinished |-> DefinitionText(<<>>, <<"h">>, <<"f","u","n","(","o","u","t"," ","r",":"," ","i","3","2",")">>, <<"r"," ","="," ","1","i","3","2",";">>, <<>>),
      \* functions to call, compile or reject
      Inc |-> DefinitionText(<<SP>>, <<"i","n","c">>, <<"f","u","n","(","o","u","t"," ","r",":"," ","i","3","2",")">>, <<"r"," ","="," ","r"," ","+"," ","1","i","3","2",";">>, <<";">>),
      Pre |-> DefinitionText(<<SP>>, <<"p","r","e">>, <<"f","u","n","(","o","u","t"," ","r",":"," ","i","3","2",","," ","i","n"," ","x",":"," ","i","3","2",")">>, <<"r"," ","="," ","x",";">>, <<";">>),
      Nop |-> DefinitionText(<<SP>>, <<"n","o","p">>, <<"f","u","n","(","i","n"," ","x",":"," ","i","3","2",")">>, <<"x"," ","="," ","1","i","3","2",";">>, <<";">>),
      TwoStatements |-> DefinitionText(<<SP>>, <<"h">>, <<"f","u","n","(","o","u","t"," ","r",":"," ","i","3","2",")">>, <<"r"," ","="," ","1","i","3","2",";"," ","r"," ","="," ","2","i","3","2",";">>, <<";">>),
      Two |-> DefinitionText(<<SP>>, <<"t","w","o">>, <<"f","u","n","(","o","u","t"," ","a",":"," ","i","3","2",","," ","o","u","t"," ","b",":"," ","i","3","2",")">>, <<"a"," ","="," ","1","i","3","2",";">>, <<";">>),
      Unit |-> DefinitionText(<<SP>>, <<"u","n","i","t">>, <<"f","u","n","(",")">>, <<"x"," ","="," ","1","i","3","2",";">>, <<";">>),
      Loop |-> DefinitionText(<<SP>>, <<"l","o","o","p">>, <<"f","u","n","(","o","u","t"," ","r",":"," ","i","3","2",")">>, <<"r"," ","="," ","l","o","o","p","(",")",";">>, <<";">>),
      InOut |-> DefinitionText(<<SP>>, <<"g">>, <<"f","u","n","(","i","n","o","u","t"," ","x",":"," ","i","3","2",")">>, <<"x"," ","="," ","1","i","3","2",";">>, <<";">>),
      Cb |-> DefinitionText(<<SP>>, <<"c","b">>, <<"f","u","n","(","i","n"," ","h",":"," ","f","u","n","(",")",","," ","o","u","t"," ","r",":"," ","i","3","2",")">>, <<"r"," ","="," ","1","i","3","2",";">>, <<";">>),
      \* functions that call functions: a chain that ends, and chains that come
      \* back to a function already entered,
      Mid |-> DefinitionText(<<SP>>, <<"m","i","d">>, <<"f","u","n","(","o","u","t"," ","r",":"," ","i","3","2",")">>, <<"r"," ","="," ","f","(",")"," ","+"," ","1","i","3","2",";">>, <<";">>),
      Ping |-> DefinitionText(<<SP>>, <<"p","i","n","g">>, <<"f","u","n","(","o","u","t"," ","r",":"," ","i","3","2",")">>, <<"r"," ","="," ","p","o","n","g","(",")",";">>, <<";">>),
      Pong |-> DefinitionText(<<SP>>, <<"p","o","n","g">>, <<"f","u","n","(","o","u","t"," ","r",":"," ","i","3","2",")">>, <<"r"," ","="," ","p","i","n","g","(",")",";">>, <<";">>),
      Count |-> DefinitionText(<<SP>>, <<"c","o","u","n","t">>, <<"f","u","n","(","i","n"," ","x",":"," ","i","3","2",","," ","o","u","t"," ","r",":"," ","i","3","2",")">>, <<"r"," ","="," ","c","o","u","n","t","(",")",";">>, <<";">>),
      MainCallsMain |-> DefinitionText(<<SP>>, s_main, t_mainType, <<"e","x","i","t","C","o","d","e"," ","="," ","m","a","i","n","(",")",";">>, <<";">>),
      CallMid |-> DefinitionText(<<SP>>, s_main, t_mainType, <<"e","x","i","t","C","o","d","e"," ","="," ","m","i","d","(",")",";">>, <<";">>),
      CallPing |-> DefinitionText(<<SP>>, s_main, t_mainType, <<"e","x","i","t","C","o","d","e"," ","="," ","p","i","n","g","(",")",";">>, <<";">>),
      CallCount |-> DefinitionText(<<SP>>, s_main, t_mainType, <<"e","x","i","t","C","o","d","e"," ","="," ","c","o","u","n","t","(","i","n"," ","x",":"," ","1","i","3","2",")",";">>, <<";">>),
      \* def main = fun(out exitCode: i32) { exitCode = E; }; for an E that calls
      \* a function or reads a variable
      CallId5 |-> DefinitionText(<<SP>>, s_main, t_mainType, <<"e","x","i","t","C","o","d","e"," ","="," ","i","d","(","i","n"," ","x",":"," ","5","i","3","2",")",";">>, <<";">>),
      CallIdMinus7 |-> DefinitionText(<<SP>>, s_main, t_mainType, <<"e","x","i","t","C","o","d","e"," ","="," ","i","d","(","i","n"," ","x",":"," ","-","7","i","3","2",")",";">>, <<";">>),
      CallIdSum |-> DefinitionText(<<SP>>, s_main, t_mainType, <<"e","x","i","t","C","o","d","e"," ","="," ","i","d","(","i","n"," ","x",":"," ","2","i","3","2"," ","+"," ","3","i","3","2",")",";">>, <<";">>),
      CallIdTwice |-> DefinitionText(<<SP>>, s_main, t_mainType, <<"e","x","i","t","C","o","d","e"," ","="," ","i","d","(","i","n"," ","x",":"," ","i","d","(","i","n"," ","x",":"," ","5","i","3","2",")",")",";">>, <<";">>),
      CallIdNoArg |-> DefinitionText(<<SP>>, s_main, t_mainType, <<"e","x","i","t","C","o","d","e"," ","="," ","i","d","(",")",";">>, <<";">>),
      CallIdOtherName |-> DefinitionText(<<SP>>, s_main, t_mainType, <<"e","x","i","t","C","o","d","e"," ","="," ","i","d","(","i","n"," ","y",":"," ","5","i","3","2",")",";">>, <<";">>),
      CallF |-> DefinitionText(<<SP>>, s_main, t_mainType, <<"e","x","i","t","C","o","d","e"," ","="," ","f","(",")",";">>, <<";">>),
      CallFExtraArg |-> DefinitionText(<<SP>>, s_main, t_mainType, <<"e","x","i","t","C","o","d","e"," ","="," ","f","(","i","n"," ","x",":"," ","1","i","3","2",")",";">>, <<";">>),
      CallFOutArg |-> DefinitionText(<<SP>>, s_main, t_mainType, <<"e","x","i","t","C","o","d","e"," ","="," ","f","(","o","u","t"," ","r",":"," ","1","i","3","2",")",";">>, <<";">>),
      CallFInOutArg |-> DefinitionText(<<SP>>, s_main, t_mainType, <<"e","x","i","t","C","o","d","e"," ","="," ","f","(","i","n","o","u","t"," ","r",":"," ","1","i","3","2",")",";">>, <<";">>),
      CallInc |-> DefinitionText(<<SP>>, s_main, t_mainType, <<"e","x","i","t","C","o","d","e"," ","="," ","i","n","c","(",")",";">>, <<";">>),
      CallPre |-> DefinitionText(<<SP>>, s_main, t_mainType, <<"e","x","i","t","C","o","d","e"," ","="," ","p","r","e","(","i","n"," ","x",":"," ","5","i","3","2",")",";">>, <<";">>),
      CallNop |-> DefinitionText(<<SP>>, s_main, t_mainType, <<"e","x","i","t","C","o","d","e"," ","="," ","n","o","p","(","i","n"," ","x",":"," ","1","i","3","2",")",";">>, <<";">>),
      CallTwo |-> DefinitionText(<<SP>>, s_main, t_mainType, <<"e","x","i","t","C","o","d","e"," ","="," ","t","w","o","(",")",";">>, <<";">>),
      CallUnit |-> DefinitionText(<<SP>>, s_main, t_mainType, <<"e","x","i","t","C","o","d","e"," ","="," ","u","n","i","t","(",")",";">>, <<";">>),
      CallLoop |-> DefinitionText(<<SP>>, s_main, t_mainType, <<"e","x","i","t","C","o","d","e"," ","="," ","l","o","o","p","(",")",";">>, <<";">>),
      CallCb |-> DefinitionText(<<SP>>, s_main, t_mainType, <<"e","x","i","t","C","o","d","e"," ","="," ","c","b","(",")",";">>, <<";">>),
      VarPlusVar |-> DefinitionText(<<SP>>, s_main, t_mainType, <<"e","x","i","t","C","o","d","e"," ","="," ","y"," ","+"," ","z",";">>, <<";">>),
      CallPlusVar |-> DefinitionText(<<SP>>, s_main, t_mainType, <<"e","x","i","t","C","o","d","e"," ","="," ","n","o","f","n","(",")"," ","+"," ","z",";">>, <<";">>),
      VarPlusQuotient |-> DefinitionText(<<SP>>, s_main, t_mainType, <<"e","x","i","t","C","o","d","e"," ","="," ","y"," ","+"," ","1","i","3","2"," ","/"," ","0","i","3","2",";">>, <<";">>),
      LiteralPlusVar |-> DefinitionText(<<SP>>, s_main, t_mainType, <<"e","x","i","t","C","o","d","e"," ","="," ","1","i","3","2"," ","+"," ","z",";">>, <<";">>),
      NestedVarPlusVar |-> DefinitionText(<<SP>>, s_main, t_mainType, <<"e","x","i","t","C","o","d","e"," ","="," ","(","y"," ","+"," ","1","i","3","2",")"," ","+"," ","z",";">>, <<";">>),
      FailedCallPlusVar |-> DefinitionText(<<SP>>, s_main, t_mainType, <<"e","x","i","t","C","o","d","e"," ","="," ","i","d","(","i","n"," ","x",":"," ","y",")"," ","+"," ","z",";">>, <<";">>),
      CallPlusCall |-> DefinitionText(<<SP>>, s_main, t_mainType, <<"e","x","i","t","C","o","d","e"," ","="," ","f","(",")"," ","+"," ","i","d","(","i","n"," ","x",":"," ","4","i","3","2",")",";">>, <<";">>) ]

\* the definitions every sequence of up to MaxDefs definitions is drawn from
DefinitionNames == {"Main", "MainTight", "MainOther", "F", "FTight", "Id", "Unfinished"}

Callees == {"F", "Id", "Inc", "Pre", "Nop", "Two", "Unit", "Loop", "InOut", "Cb"}
CallingMains ==
    {"CallId5", "CallIdMinus7", "CallIdSum", "CallIdTwice", "CallIdNoArg", "CallIdOtherName",
     "CallF", "CallFExtraArg", "CallFOutArg", "CallFInOutArg", "CallInc", "CallPre", "CallNop",
     "CallTwo", "CallUnit", "CallLoop", "CallCb", "VarPlusVar", "CallPlusVar",
     "VarPlusQuotient", "LiteralPlusVar", "NestedVarPlusVar", "FailedCallPlusVar",
     "CallPlusCall"}

\* two definitions of f, of the values 1 and 2, and the main that calls f
DuplicatePrograms ==
    { <<"F", "FTight", "CallF">>, <<"FTight", "F", "CallF">>,
      <<"CallF", "F", "FTight">>, <<"CallF", "FTight", "F">>, <<"F", "CallF", "FTight">> }

\* programs in which the calls evaluated from main come back to a function
\* that is already running
RecursivePrograms ==
    { <<"Loop", "CallLoop">>, <<"CallLoop", "Loop">>, <<"MainCallsMain">>,
      <<"Ping", "Pong", "CallPing">>, <<"CallPing", "Pong", "Ping">>,
      <<"Count", "CallCount">>, <<"CallCount", "Count">> }

\* main calls mid and mid calls f: the longest chain of calls that ends
ChainPrograms ==
    { <<"Mid", "F", "CallMid">>, <<"CallMid", "Mid", "F">>, <<"F", "CallMid", "Mid">>,
      <<"Mid", "CallMid">>, <<"Ping", "CallPing">> }

\* a main and one function, in both orders; a main on its own; a main after
\* f and id; the plain main and one function; the programs with two f; the
\* programs of calls that call
CallPrograms ==
    { <<c, m>> : c \in Callees, m \in CallingMains }
    \cup { <<m, c>> : c \in Callees, m \in CallingMains }
    \cup { <<m>> : m \in CallingMains }
    \cup { <<"F", "Id", m>> : m \in CallingMains }
    \cup { <<"Main", c>> : c \in Callees }
    \cup DuplicatePrograms
    \cup RecursivePrograms
    \cup ChainPrograms

RenderDefinition(d) ==
    d.lead \o s_def \o <<SP>> \o d.name \o <<SP, "=", SP>> \o d.type
    \o <<SP, "{", SP>> \o d.body \o <<SP, "}">> \o d.tail

RECURSIVE RenderDefinitions(_)
RenderDefinitions(defs) ==
    IF defs = <<>> THEN <<>>
    ELSE RenderDefinition(DefinitionTexts[Head(defs)]) \o RenderDefinitions(Tail(defs))

DefinitionLists == UNION { [1..n -> DefinitionNames] : n \in 0..MaxDefs }

ArithScenario(e) == [kind |-> "arith", expr |-> e, defs |-> <<"Main">>]
DefsScenario(defs) == [kind |-> "defs", expr |-> Lit(0), defs |-> defs]
CallScenario(defs) == [kind |-> "calls", expr |-> Lit(0), defs |-> defs]
NoScenario == [kind |-> "none", expr |-> Lit(0), defs |-> <<>>]

Scenarios ==
    { ArithScenario(e) : e \in FlatChains \cup NestedChains \cup SampleChains }
    \cup { DefsScenario(defs) : defs \in DefinitionLists }
    \cup { CallScenario(defs) : defs \in CallPrograms }

Render(s) == IF s.kind = "arith" THEN RenderArith(s.expr) ELSE RenderDefinitions(s.defs)

(***************************************************************************)
(* The state machine: a source text is parsed, and the Program of a        *)
(* successful parse is executed or compiled.                               *)
(***************************************************************************)
NoParse == [ok |-> FALSE, what |-> <<>>, program |-> EmptyProgram]
NoExecution == [st |-> "none", value |-> 0, what |-> <<>>]
NoLocation == [thrown |-> FALSE, lineNumber |-> 0, columnNumber |-> 0, byteOffset |-> 0]
NoBinArg == [op |-> "none", lhs |-> 0, rhs |-> 0]
NoBinResult == [st |-> "none", value |-> 0]
NoCompilation == [st |-> "none", bytes |-> <<>>, what |-> <<>>]
NoArgs == [files |-> 0, execute |-> FALSE]
NoStep == [routine |-> "none", ok |-> FALSE, thrown |-> FALSE, remaining |-> NoInput]
\* how the process ended: main returned code, or a signal killed it
Exited(code) == [k |-> "exited", code |-> code]
Killed == [k |-> "killed", code |-> 0]
NotExited == [k |-> "running", code |-> 0]
EXIT_SUCCESS == Exited(0)
EXIT_FAILURE == Exited(1)

Init ==
    /\ scenario \in Scenarios
    /\ source = Render(scenario)
    /\ pc = "start"
    /\ parsed = NoParse
    /\ executed = NoExecution
    /\ locArg = 0
    /\ located = NoLocation
    /\ binArg = NoBinArg
    /\ binResult = NoBinResult
    /\ compiled = NoCompilation
    /\ slebArg = 0
    /\ slebBytes = <<>>
    /\ args = NoArgs
    /\ exitStatus = NotExited
    /\ cursor = 0
    /\ step = NoStep

\* jereq::parse(input, name)
Parse ==
    /\ pc = "start"
    /\ parsed' = parse(source, FileName)
    /\ pc' = "parsed"
    /\ UNCHANGED <<scenario, source, executed, locArg, located, binArg, binResult,
                 compiled, slebArg, slebBytes, args, exitStatus, cursor, step>>

\* jereq::execute(parsedProgram), as the driver calls it after a successful parse
Execute ==
    /\ pc = "parsed"
    /\ parsed.ok
    /\ \E outcome \in execute(parsed.program) : executed' = outcome
    /\ pc' = "executed"
    /\ UNCHANGED <<scenario, source, parsed, locArg, located, binArg, binResult,
                 compiled, slebArg, slebBytes, args, exitStatus, cursor, step>>

\* jereq::compile(parsedProgram, output): the sink takes the bytes or is in
\* a failed state, and the allocator decides which function named main comes
\* first in the index
MainsInIndex(program) ==
    IF NamedMain(program.functions) = {} THEN {0} ELSE NamedMain(program.functions)

Compile ==
    /\ pc \in {"parsed", "built"}
    /\ parsed.ok
    /\ \E sinkGood \in BOOLEAN, firstMain \in MainsInIndex(parsed.program) :
          compiled' = compile(parsed.program, sinkGood, firstMain)
    /\ parsed' = [parsed EXCEPT !.program = ProgramAfterCompile(@)]
    /\ pc' = "compiled"
    /\ UNCHANGED <<scenario, source, executed, locArg, located, binArg, binResult,
                   slebArg, slebBytes, args, exitStatus, cursor, step>>

Next == Parse \/ Execute \/ Compile

Spec == Init /\ [][Next]_vars

(***************************************************************************)
(* locate on its own: every text of up to MaxLocateLen bytes drawn from a  *)
(* letter and the line break, and every substring start in it, together    *)
(* with the two starts just outside the text.                              *)
(***************************************************************************)
LocateTexts == UNION { [1..n -> {"a", NL}] : n \in 0..MaxLocateLen }

InitLocate ==
    /\ scenario = NoScenario
    /\ source \in LocateTexts
    /\ pc = "start"
    /\ parsed = NoParse
    /\ executed = NoExecution
    /\ locArg = 0
    /\ located = NoLocation
    /\ binArg = NoBinArg
    /\ binResult = NoBinResult
    /\ compiled = NoCompilation
    /\ slebArg = 0
    /\ slebBytes = <<>>
    /\ args = NoArgs
    /\ exitStatus = NotExited
    /\ cursor = 0
    /\ step = NoStep

\* jereq::locate(substring, original), substring starting at byte p of original
Locate ==
    /\ pc = "start"
    /\ \E p \in -1..(Len(source) + 1) :
          /\ locArg' = p
          /\ located' = locate(p, source)
    /\ pc' = "located"
    /\ UNCHANGED <<scenario, source, parsed, executed, binArg, binResult,
                 compiled, slebArg, slebBytes, args, exitStatus, cursor, step>>

NextLocate == Locate

SpecLocate == InitLocate /\ [][NextLocate]_vars

(***************************************************************************)
(* The arithmetic of operator()(BinaryOpExpression const&) on its own:     *)
(* every operator on every pair of the operand samples, which hold the     *)
(* ends of the std::int32_t range.                                         *)
(***************************************************************************)
OperandSamples == {I32Min, I32Min + 1, -65536, -7, -1, 0, 1, 2, 3, 65535, 65536, I32Max}

InitBinaryOp ==
    /\ scenario = NoScenario
    /\ source = <<>>
    /\ pc = "start"
    /\ parsed = NoParse
    /\ executed = NoExecution
    /\ locArg = 0
    /\ located = NoLocation
    /\ binArg \in [op : Operators, lhs : OperandSamples, rhs : OperandSamples]
    /\ binResult = NoBinResult
    /\ compiled = NoCompilation
    /\ slebArg = 0
    /\ slebBytes = <<>>
    /\ args = NoArgs
    /\ exitStatus = NotExited
    /\ cursor = 0
    /\ step = NoStep

\* the switch on binaryOp.op, applied to lhsValue and rhsValue
EvaluateBinaryOp ==
    /\ pc = "start"
    /\ \E outcome \in ApplyBinaryOperator(binArg.op, binArg.lhs, binArg.rhs) :
          binResult' = outcome
    /\ pc' = "evaluated"
    /\ UNCHANGED <<scenario, source, parsed, executed, locArg, located, binArg,
                 compiled, slebArg, slebBytes, args, exitStatus, cursor, step>>

NextBinaryOp == EvaluateBinaryOp

SpecBinaryOp == InitBinaryOp /\ [][NextBinaryOp]_vars

(***************************************************************************)
(* Reference definitions the properties are stated against.  They are      *)
(* written from the meaning of the text, not from the code: positions by a *)
(* forward scan, trees by a fold over the chain the source was rendered    *)
(* from.                                                                   *)
(***************************************************************************)
\* line and column of the byte at offset n of text, scanning forward from
\* line 1, column 1: a line break starts a line, any other byte a column
RECURSIVE RefPosition(_, _)
RefPosition(text, n) ==
    IF n = 0 THEN [line |-> 1, column |-> 1]
    ELSE LET before == RefPosition(text, n - 1)
         IN  IF text[n] = NL THEN [line |-> before.line + 1, column |-> 1]
             ELSE [line |-> before.line, column |-> before.column + 1]

\* the same position without a scan: the line breaks before the byte, and
\* the bytes before it that no line break separates from it
RefLine(text, n) == 1 + Cardinality({i \in 1..n : text[i] = NL})
RefColumn(text, n) == 1 + Cardinality({i \in 1..n : \A j \in i..n : text[j] # NL})

\* an expression tree without the rep strings
RECURSIVE Shape(_)
Shape(expression) ==
    LET e == expression.expr
    IN  CASE e.k = "BinaryOpExpression" ->
                BinaryOpExpression(e.op, Shape(e.lhs), Shape(e.rhs))
          [] e.k = "InitAssignment" -> InitAssignment(e.var, Shape(e.value))
          [] OTHER -> e

\* the tree of a chain t1 op1 t2 ... tn folded from the left; a
\* parenthesised chain is one operand
RECURSIVE RefTree(_)
RECURSIVE RefFold(_, _, _)
RefOperandTree(t) == IF t.k = "lit" THEN Literal(t.v) ELSE RefTree(t)
RefFold(c, i, head) ==
    IF i > Len(c.terms) THEN head
    ELSE RefFold(c, i + 1,
                 BinaryOpExpression(c.ops[i - 1], head, RefOperandTree(c.terms[i])))
RefTree(c) == RefFold(c, 2, RefOperandTree(c.terms[1]))

\* the expression of main in a parsed arithmetic scenario
MainExpression == parsed.program.functions[parsed.program.mainFunction].expression

(***************************************************************************)
(* C9: locate(substring, original) returns as byteOffset the number of     *)
(* bytes before the substring start, as lineNumber one more than the       *)
(* number of line breaks before it, and as columnNumber the distance from  *)
(* the last line break before it (the offset plus one on line 1), so that  *)
(* the first byte of every line has column 1.  Checked under SpecLocate.   *)
(***************************************************************************)
C9_LocateGivesLineAndColumn ==
    (pc = "located" /\ locArg \in 0..Len(source)) =>
        /\ ~located.thrown
        /\ located.byteOffset = locArg
        /\ located.lineNumber = RefLine(source, locArg)
        /\ located.columnNumber = RefColumn(source, locArg)
        /\ located.lineNumber = RefPosition(source, locArg).line
        /\ located.columnNumber = RefPosition(source, locArg).column
        /\ (locArg > 0 /\ source[locArg] = NL) => located.columnNumber = 1

\* the first byte of a third line, and a later byte of a second line
C9_Witness ==
    /\ pc = "located"
    /\ source = <<"a", NL, NL, "a", "a">>
    /\ locArg = 4
    /\ located = [thrown |-> FALSE, lineNumber |-> 3, columnNumber |-> 2, byteOffset |-> 4]

(***************************************************************************)
(* C2: parseExpressionTerms folds a chain t1 op1 t2 ... tn from the left,  *)
(* the five operators at equal precedence, and a parenthesised chain is    *)
(* one operand: the tree of the parsed body is the left fold of the chain  *)
(* the source was rendered from.                                           *)
(***************************************************************************)
C2_ChainFoldsLeft ==
    (pc # "start" /\ scenario.kind = "arith") =>
        /\ parsed.ok
        /\ Shape(MainExpression) = InitAssignment(s_exitCode, RefTree(scenario.expr))

\* 1 + 2 * 3 is BinaryOp(multiply, BinaryOp(add, 1, 2), 3)
C2_Witness ==
    /\ pc = "parsed"
    /\ scenario.expr = Chain(<<Lit(1), Lit(2), Lit(3)>>, <<"add", "multiply">>)
    /\ Shape(MainExpression).value =
          BinaryOpExpression("multiply",
                             BinaryOpExpression("add", Literal(1), Literal(2)),
                             Literal(3))

(***************************************************************************)
(* C3: executing                                                           *)
(*   def main = fun(out exitCode: i32)                                     *)
(*     { exitCode = 12310i32 % 100i32 / 3i32 + 2i32 * -2i32 - -7i32; };    *)
(* yields the value of ((((12310 % 100) / 3) + 2) * -2) - -7.  That value  *)
(* is -3: 12310 % 100 = 10, 10 / 3 = 3, 3 + 2 = 5, 5 * -2 = -10 and        *)
(* -10 - -7 = -3.                                                          *)
(***************************************************************************)
Scenario3 ==
    ArithScenario(Chain(<<Lit(12310), Lit(100), Lit(3), Lit(2), Lit(-2), Lit(-7)>>,
                        <<"modulo", "divide", "add", "multiply", "subtract">>))

C3_Scenario3YieldsMinus3 ==
    (pc = "executed" /\ scenario = Scenario3) =>
        executed = [st |-> "value", value |-> -3, what |-> <<>>]

C3_Witness ==
    /\ pc = "executed"
    /\ scenario = Scenario3
    /\ source = RenderArith(Scenario3.expr)
    /\ executed.st = "value"
    /\ executed.value = ((((12310 % 100) \div 3) + 2) * (-2)) - (-7)

\* C3 as the specification words it: the exit code is -7
C3_Scenario3YieldsMinus7 ==
    (pc = "executed" /\ scenario = Scenario3) =>
        executed = [st |-> "value", value |-> -7, what |-> <<>>]

(***************************************************************************)
(* C6: in the Program of a successful parse mainFunction is set and is one *)
(* element of functions, that element is the only function named main,     *)
(* its type is fun(out exitCode: i32) (one parameter, named exitCode,      *)
(* direction out, of the built-in type i32), and functions holds the       *)
(* definitions of the source, as many and in the same order.               *)
(***************************************************************************)
C6_MainIsUniqueAndTyped ==
    (pc # "start" /\ parsed.ok) =>
        LET program == parsed.program
            main == program.mainFunction
        IN  /\ main \in 1..Len(program.functions)
            /\ \A i \in 1..Len(program.functions) :
                  (program.functions[i].name = s_main) <=> (i = main)
            /\ LET type == program.types[program.functions[main].type].t
               IN  /\ type.k = "FuncType"
                   /\ Len(type.parameters) = 1
                   /\ type.parameters[1].name = s_exitCode
                   /\ type.parameters[1].direction = "out"
                   /\ program.types[type.parameters[1].type].t = BuiltInType(s_i32)
            /\ Len(program.functions) = Len(scenario.defs)
            /\ \A i \in 1..Len(scenario.defs) :
                  program.functions[i].name = DefinitionTexts[scenario.defs[i]].name

\* main is the second of three definitions
C6_Witness ==
    /\ pc = "parsed"
    /\ scenario.kind = "defs"
    /\ scenario.defs = <<"F", "MainTight", "Id">>
    /\ parsed.ok
    /\ parsed.program.mainFunction = 2

(***************************************************************************)
(* C10: when a source holds two definitions named main, both of the type   *)
(* of main, and every definition up to the second of them is well formed,  *)
(* parse fails, returns no Program, and the error is "Multiple main        *)
(* functions found" located at the line and column of the name of the      *)
(* second definition, whatever definitions precede or separate the two.    *)
(***************************************************************************)
MainNamed(defs) == {i \in 1..Len(defs) : DefinitionTexts[defs[i]].name = s_main}
SecondMain(defs) ==
    CHOOSE j \in MainNamed(defs) : Cardinality({i \in MainNamed(defs) : i < j}) = 1

\* the definition texts that parse, with the type of main where named main
ProperDefinitions == {"Main", "MainTight", "F", "FTight", "Id"}

\* byte offset of the name of the j-th definition in the rendered source
NameOffset(defs, j) ==
    Len(RenderDefinitions(SubSeq(defs, 1, j - 1)))
    + Len(DefinitionTexts[defs[j]].lead) + Len(s_def) + 1

LocatedAtName(what, defs, j) ==
    /\ Len(what) >= 6
    /\ what[3] = RefLine(RenderDefinitions(defs), NameOffset(defs, j))
    /\ what[5] = RefColumn(RenderDefinitions(defs), NameOffset(defs, j))

C10_SecondMainIsRejectedAtItsName ==
    (/\ pc # "start"
     /\ scenario.kind = "defs"
     /\ Cardinality(MainNamed(scenario.defs)) >= 2
     /\ \A i \in 1..SecondMain(scenario.defs) : scenario.defs[i] \in ProperDefinitions) =>
        /\ ~parsed.ok
        /\ parsed.program = EmptyProgram
        /\ LocatedAtName(parsed.what, scenario.defs, SecondMain(scenario.defs))
        /\ parsed.what[7] = "Multiple main functions found"

\* the second main is the third definition, on the third line
C10_Witness ==
    /\ pc = "parsed"
    /\ scenario.kind = "defs"
    /\ scenario.defs = <<"Main", "F", "MainTight">>
    /\ parsed.what = <<FileName, "(", 3, ":", 5, "): ", "Multiple main functions found">>

\* C10 as the specification words it: any two definitions named main, in a
\* source whose definitions are all syntactically complete
C10_AnySecondMainIsRejectedAtItsName ==
    (/\ pc # "start"
     /\ scenario.kind = "defs"
     /\ Cardinality(MainNamed(scenario.defs)) >= 2
     /\ \A i \in 1..Len(scenario.defs) : scenario.defs[i] # "Unfinished") =>
        /\ ~parsed.ok
        /\ parsed.program = EmptyProgram
        /\ LocatedAtName(parsed.what, scenario.defs, SecondMain(scenario.defs))

(***************************************************************************)
(* The reference arithmetic: 32-bit two's complement from the four base    *)
(* 256 digits of the operands, and the quotient truncated toward zero.     *)
(***************************************************************************)
RefDigits(a) == [k \in 0..3 |-> (a \div (256 ^ k)) % 256]

\* the signed value of the four low digits of the columns, carries propagated
RefFromColumns(columns) ==
    LET t0 == columns[0]
        t1 == columns[1] + (t0 \div 256)
        t2 == columns[2] + (t1 \div 256)
        t3 == columns[3] + (t2 \div 256)
        d3 == t3 % 256
    IN  (IF d3 >= 128 THEN d3 - 256 ELSE d3) * 16777216
        + (t2 % 256) * 65536 + (t1 % 256) * 256 + (t0 % 256)

RefAdd(a, b) == RefFromColumns([k \in 0..3 |-> RefDigits(a)[k] + RefDigits(b)[k]])
RefSubtract(a, b) == RefFromColumns([k \in 0..3 |-> RefDigits(a)[k] - RefDigits(b)[k]])
RefSum(f, k) == IF k = 0 THEN f[0] ELSE IF k = 1 THEN f[0] + f[1]
                ELSE IF k = 2 THEN f[0] + f[1] + f[2] ELSE f[0] + f[1] + f[2] + f[3]
RefMultiply(a, b) ==
    RefFromColumns([k \in 0..3 |->
        RefSum([i \in 0..3 |-> IF i <= k THEN RefDigits(a)[i] * RefDigits(b)[k - i] ELSE 0], k)])

\* for b # 0: the integer nearest to zero from a / b, reduced like the
\* other results where it does not fit (-2^31 / -1)
RefDivide(a, b) ==
    IF b = I32Min THEN (IF a = I32Min THEN 1 ELSE 0)
    ELSE IF a = I32Min /\ b = -1 THEN I32Min
    ELSE LET floor == a \div b
             exact == a % (IF b > 0 THEN b ELSE 0 - b) = 0
         IN  IF floor < 0 /\ ~exact THEN floor + 1 ELSE floor
RefModulo(a, b) ==
    IF a = I32Min /\ b = -1 THEN 0 ELSE a - b * RefDivide(a, b)

RefApply(op, a, b) ==
    CASE op = "add" -> RefAdd(a, b)
      [] op = "subtract" -> RefSubtract(a, b)
      [] op = "multiply" -> RefMultiply(a, b)
      [] op = "divide" -> RefDivide(a, b)
      [] op = "modulo" -> RefModulo(a, b)

\* whether the mathematical result of op on a and b is an i32
RefFits(op, a, b) ==
    CASE op = "add" -> AddFits(a, b)
      [] op = "subtract" -> SubFits(a, b)
      [] op = "multiply" -> MulFits(a, b)
      [] OTHER -> QuotientFits(a, b)

\* the reference evaluator: the terms of a chain from left to right, the
\* operators at equal precedence.  st is "zero" from the first division or
\* modulo by zero on; wrapped tells whether a result did not fit before.
RefValue(v) == [st |-> "value", value |-> v, wrapped |-> FALSE]
RECURSIVE RefEval(_)
RECURSIVE RefEvalFrom(_, _, _)
RefEvalOperand(t) == IF t.k = "lit" THEN RefValue(t.v) ELSE RefEval(t)
RefStep(op, lhs, rhs) ==
    IF lhs.st # "value" THEN lhs
    ELSE IF rhs.st # "value" THEN [rhs EXCEPT !.wrapped = lhs.wrapped \/ rhs.wrapped]
    ELSE IF op \in {"divide", "modulo"} /\ rhs.value = 0
    THEN [st |-> "zero", value |-> 0, wrapped |-> lhs.wrapped \/ rhs.wrapped]
    ELSE [st |-> "value", value |-> RefApply(op, lhs.value, rhs.value),
          wrapped |-> lhs.wrapped \/ rhs.wrapped \/ ~RefFits(op, lhs.value, rhs.value)]
RefEvalFrom(c, i, head) ==
    IF i > Len(c.terms) THEN head
    ELSE RefEvalFrom(c, i + 1, RefStep(c.ops[i - 1], head, RefEvalOperand(c.terms[i])))
RefEval(c) == RefEvalFrom(c, 2, RefEvalOperand(c.terms[1]))

(***************************************************************************)
(* C5: for all i32 operands a and b, add, subtract and multiply return the *)
(* mathematical result reduced modulo 2^32 into the signed 32-bit range,   *)
(* and divide and modulo with b # 0 return the quotient truncated toward   *)
(* zero and the matching remainder, a = -2^31, b = -1 included.  Checked   *)
(* under SpecBinaryOp.                                                     *)
(***************************************************************************)
C5_ArithmeticWrapsAndTruncates ==
    (/\ pc = "evaluated"
     /\ (binArg.op \in {"divide", "modulo"} => binArg.rhs # 0)) =>
        /\ binResult.st = "value"
        /\ binResult.value = RefApply(binArg.op, binArg.lhs, binArg.rhs)

\* the operands whose result is an i32: the evaluation is defined there
C5_ArithmeticWhereTheResultFits ==
    (/\ pc = "evaluated"
     /\ (binArg.op \in {"divide", "modulo"} => binArg.rhs # 0)
     /\ RefFits(binArg.op, binArg.lhs, binArg.rhs)) =>
        /\ binResult.st = "value"
        /\ binResult.value = RefApply(binArg.op, binArg.lhs, binArg.rhs)

(***************************************************************************)
(* C1: for a source  def main = fun(out exitCode: i32) { exitCode = E; };  *)
(* with E built from i32 literals, + - * / % and parentheses, and no       *)
(* division or modulo by zero, execute(parse(s)) returns the value the     *)
(* reference evaluator gives E.                                            *)
(***************************************************************************)
C1_ExecuteAgreesWithReference ==
    (/\ pc = "executed"
     /\ scenario.kind = "arith"
     /\ RefEval(scenario.expr).st = "value") =>
        /\ executed.st = "value"
        /\ executed.value = RefEval(scenario.expr).value

\* the sources whose evaluation stays inside the i32 range
C1_ExecuteAgreesWhereNothingWraps ==
    (/\ pc = "executed"
     /\ scenario.kind = "arith"
     /\ RefEval(scenario.expr).st = "value"
     /\ ~RefEval(scenario.expr).wrapped) =>
        /\ executed.st = "value"
        /\ executed.value = RefEval(scenario.expr).value

(***************************************************************************)
(* C4: when a divide or modulo is evaluated and its rhs evaluates to 0,    *)
(* execute fails with an evaluation error and returns no exit code.        *)
(***************************************************************************)
C4_DivisionByZeroIsAnError ==
    (/\ pc = "executed"
     /\ scenario.kind = "arith"
     /\ RefEval(scenario.expr).st = "zero"
     /\ ~RefEval(scenario.expr).wrapped) =>
        executed.st = "error"

(***************************************************************************)
(* C7: Program.types of a parsed Program holds no two structurally equal   *)
(* entries (same variant; for function types the same ordered parameters   *)
(* by name, direction and type), however the types are spelled in the      *)
(* source; every type a Function or a FuncParameter refers to is an entry  *)
(* of Program.types; the minimal program yields two types.                 *)
(***************************************************************************)
StructurallyEqual(lhs, rhs) ==
    /\ lhs.t.k = rhs.t.k
    /\ IF lhs.t.k = "BuiltInType" THEN lhs.t.name = rhs.t.name
       ELSE /\ Len(lhs.t.parameters) = Len(rhs.t.parameters)
            /\ \A i \in 1..Len(lhs.t.parameters) :
                  /\ lhs.t.parameters[i].name = rhs.t.parameters[i].name
                  /\ lhs.t.parameters[i].direction = rhs.t.parameters[i].direction
                  /\ lhs.t.parameters[i].type = rhs.t.parameters[i].type

TypeReferencesResolve(program) ==
    /\ \A i \in 1..Len(program.functions) :
          program.functions[i].type \in 1..Len(program.types)
    /\ \A i \in 1..Len(program.types) :
          \A j \in 1..Len(program.types[i].t.parameters) :
              program.types[i].t.parameters[j].type \in 1..Len(program.types)

C7_TypesAreDeduplicated ==
    (pc # "start" /\ parsed.ok) =>
        /\ \A i, j \in 1..Len(parsed.program.types) :
              StructurallyEqual(parsed.program.types[i], parsed.program.types[j]) => i = j
        /\ TypeReferencesResolve(parsed.program)
        /\ (scenario.kind = "defs" /\ scenario.defs = <<"Main">>) =>
              Len(parsed.program.types) = 2

\* the same for sources that spell every type one way
C7_TypesAreDeduplicatedPerSpelling ==
    (pc # "start" /\ parsed.ok) =>
        /\ \A i, j \in 1..Len(parsed.program.types) :
              TypeEq(parsed.program.types[i], parsed.program.types[j]) => i = j
        /\ TypeReferencesResolve(parsed.program)

(***************************************************************************)
(* C8: every failure of parse is a located error, its message of the form  *)
(* {source_name}({line}:{column}): {description}; the rejection of a       *)
(* source without main, and of an empty source, included.                  *)
(***************************************************************************)
IsLocated(what) ==
    /\ Len(what) >= 7
    /\ what[1] = FileName
    /\ what[2] = "("
    /\ what[3] \in 1..(Len(source) + 1)
    /\ what[4] = ":"
    /\ what[5] \in 1..(Len(source) + 1)
    /\ what[6] = "): "

C8_EveryParseFailureIsLocated ==
    (pc # "start" /\ ~parsed.ok) => IsLocated(parsed.what)

\* the failures raised while a definition is parsed
C8_FailuresInsideDefinitionsAreLocated ==
    (pc # "start" /\ ~parsed.ok /\ parsed.what # <<"No main function">>) =>
        IsLocated(parsed.what)

(***************************************************************************)
(* The parameters of the type of a parsed function, and the argument of    *)
(* the call that is the value main assigns.                                *)
(***************************************************************************)
ParametersOf(program, i) == program.types[program.functions[i].type].t.parameters
DirectionsOf(program, i) ==
    [j \in 1..Len(ParametersOf(program, i)) |-> ParametersOf(program, i)[j].direction]
MainCall == MainExpression.expr.value.expr

(***************************************************************************)
(* C11: the parser accepts each of the direction keywords in, out and      *)
(* inout in a parameter of a function type and in an argument of a call,   *)
(* and records the ParameterDirection of the keyword: a definition of type *)
(* fun(inout x: i32) parses and yields a parameter of direction inout, and *)
(* so does the argument of f(inout r: 1i32).                               *)
(***************************************************************************)
C11_EveryDirectionKeywordIsAccepted ==
    (pc # "start" /\ scenario.kind = "calls") =>
        /\ scenario.defs = <<"Main", "InOut">> =>
              /\ parsed.ok
              /\ DirectionsOf(parsed.program, 2) = <<"inout">>
        /\ scenario.defs = <<"F", "CallFInOutArg">> =>
              /\ parsed.ok
              /\ MainCall.arguments[1].direction = "inout"
        /\ scenario.defs = <<"Id", "CallId5">> =>
              /\ parsed.ok
              /\ DirectionsOf(parsed.program, 1) = <<"in", "out">>
              /\ MainCall.arguments[1].direction = "in"
        /\ scenario.defs = <<"F", "CallFOutArg">> =>
              /\ parsed.ok
              /\ DirectionsOf(parsed.program, 1) = <<"out">>
              /\ MainCall.arguments[1].direction = "out"

\* the keywords in and out are accepted and recorded, in a parameter and in
\* an argument
C11_InAndOutAreAccepted ==
    (pc # "start" /\ scenario.kind = "calls") =>
        /\ scenario.defs = <<"Id", "CallId5">> =>
              /\ parsed.ok
              /\ DirectionsOf(parsed.program, 1) = <<"in", "out">>
              /\ MainCall.arguments[1].direction = "in"
        /\ scenario.defs = <<"F", "CallFOutArg">> =>
              /\ parsed.ok
              /\ DirectionsOf(parsed.program, 1) = <<"out">>
              /\ MainCall.arguments[1].direction = "out"

\* inout is read as in followed by the text out: the parse fails
C11_InOutIsRejected ==
    (pc # "start" /\ scenario.kind = "calls"
       /\ (\E i \in 1..Len(scenario.defs) : scenario.defs[i] \in {"InOut", "CallFInOutArg"})) =>
        ~parsed.ok

(***************************************************************************)
(* C12: a call builds a fresh frame with one local per parameter of the    *)
(* callee, in the order of declaration, an in local taking the value of    *)
(* the caller's argument of the same name and an out local the value 0;    *)
(* after the body every out local is copied to the caller's slot of the    *)
(* same name, and a call of a function with one out parameter evaluates to *)
(* that value: id(in x: 5i32) with the body r = x; yields 5.               *)
(***************************************************************************)
\* a function the interpreter can call: parameters of type i32, directions
\* in and out, no name twice
Callable(program, i) ==
    LET parameters == ParametersOf(program, i)
    IN  /\ \A j \in 1..Len(parameters) :
              /\ program.types[parameters[j].type].t = BuiltInType(s_i32)
              /\ parameters[j].direction \in {"in", "out"}
        /\ \A j, k \in 1..Len(parameters) :
              parameters[j].name = parameters[k].name => j = k

\* one argument per parameter, in the reverse order, the argument of
\* parameter j with the value 10 + j
ReversedArgs(parameters) ==
    [j \in 1..Len(parameters) |->
        ParameterValue(parameters[Len(parameters) + 1 - j].name,
                       10 + (Len(parameters) + 1 - j))]

CallsYielding ==
    [ CallId5 |-> 5, CallIdMinus7 |-> -7, CallIdSum |-> 5, CallIdTwice |-> 5,
      CallInc |-> 1, CallPre |-> 5, CallF |-> 1 ]
CalleeOf ==
    [ CallId5 |-> "Id", CallIdMinus7 |-> "Id", CallIdSum |-> "Id", CallIdTwice |-> "Id",
      CallInc |-> "Inc", CallPre |-> "Pre", CallF |-> "F" ]

C12_CallBuildsFrameAndCopiesOut ==
    /\ (pc # "start" /\ parsed.ok) =>
          \A i \in 1..Len(parsed.program.functions) :
             Callable(parsed.program, i) =>
                LET parameters == ParametersOf(parsed.program, i)
                    built == BuildLocals(parsed.program.types, parameters, 1,
                                         ReversedArgs(parameters), OutSlots(parameters, 1),
                                         <<>>)
                IN  /\ ~built.thrown
                    /\ built.locals =
                          [j \in 1..Len(parameters) |->
                              Local(parameters[j].name,
                                    IF parameters[j].direction = "in" THEN 10 + j ELSE 0)]
    /\ (pc = "executed" /\ scenario.kind = "calls") =>
          \A m \in DOMAIN CallsYielding :
             scenario.defs \in {<<CalleeOf[m], m>>, <<m, CalleeOf[m]>>} =>
                executed = [st |-> "value", value |-> CallsYielding[m], what |-> <<>>]

\* scenario 4: id is defined before main, and main yields id(in x: 5i32)
C12_Witness ==
    /\ pc = "executed"
    /\ scenario.defs = <<"Id", "CallId5">>
    /\ Callable(parsed.program, 1)
    /\ DirectionsOf(parsed.program, 1) = <<"in", "out">>
    /\ executed.st = "value"
    /\ executed.value = 5

(***************************************************************************)
(* C13: executeFunction fails whenever the number of arguments resolved    *)
(* for the call, the in arguments of the caller plus the out slots,        *)
(* differs from the number of parameters of the callee: the call           *)
(* f(in x: 1i32) of f = fun(out r: i32), whose argument x matches no       *)
(* parameter, fails, and so does the call id() that leaves x out.          *)
(***************************************************************************)
C13_ArgumentCountMismatchFails ==
    (pc = "executed" /\ scenario.kind = "calls") =>
        /\ scenario.defs \in {<<"F", "CallFExtraArg">>, <<"CallFExtraArg", "F">>} =>
              executed.st = "error"
        /\ scenario.defs \in {<<"Id", "CallIdNoArg">>, <<"CallIdNoArg", "Id">>} =>
              executed.st = "error"

\* a parameter without an argument of its name makes the call fail
C13_MissingArgumentFails ==
    (pc = "executed" /\ scenario.kind = "calls") =>
        /\ scenario.defs \in {<<"Id", "CallIdNoArg">>, <<"CallIdNoArg", "Id">>,
                              <<"Id", "CallIdOtherName">>, <<"CallIdOtherName", "Id">>} =>
              /\ executed.st = "error"
              /\ executed.what = <<"No arg provided for param  \"", "x", "\"">>

\* an argument without a parameter of its name is ignored: the call returns
C13_UnmatchedArgumentIsIgnored ==
    (pc = "executed" /\ scenario.kind = "calls") =>
        /\ scenario.defs \in {<<"F", "CallFExtraArg">>, <<"CallFExtraArg", "F">>} =>
              executed = [st |-> "value", value |-> 1, what |-> <<>>]

(***************************************************************************)
(* C20: when a BinaryOpExpression is evaluated, lhs is evaluated           *)
(* completely before rhs is started: when the evaluation of lhs fails,     *)
(* rhs is not evaluated and the failure execute reports is the one lhs     *)
(* raised, whatever rhs would have done (fail as well, divide by zero).    *)
(***************************************************************************)
\* the mains whose value is lhs op rhs with a failing lhs, and the message
\* of the failure of lhs
NotFound(varName) == <<"Local \"">> \o varName \o <<"\" not found">>
LhsFailure ==
    [ VarPlusVar |-> NotFound(<<"y">>),
      CallPlusVar |-> <<"Couldn't find function ", "n", "o", "f", "n">>,
      VarPlusQuotient |-> NotFound(<<"y">>),
      NestedVarPlusVar |-> NotFound(<<"y">>),
      FailedCallPlusVar |-> NotFound(<<"y">>) ]

\* the frame execute hands to the body of main
MainFrame == Frame(<<Local(s_exitCode, 0)>>)

C20_LhsFailureIsReported ==
    /\ (pc = "executed" /\ scenario.kind = "calls") =>
          \A m \in DOMAIN LhsFailure :
             scenario.defs \in {<<"Id", m>>, <<m, "Id">>, <<"F", "Id", m>>} =>
                executed = [st |-> "error", value |-> 0, what |-> LhsFailure[m]]
    /\ (pc # "start" /\ parsed.ok /\ MainExpression.expr.value.expr.k = "BinaryOpExpression") =>
          LET e == MainExpression.expr.value
              lhs == evaluateExpression(parsed.program, MainFrame, e.expr.lhs, 1)
              whole == evaluateExpression(parsed.program, MainFrame, e, 1)
          IN  /\ \A l \in lhs : l.st # "value" => l \in whole
              /\ (\A l \in lhs : l.st # "value") => whole = lhs

\* y + z: both operands fail, and the failure reported is the one of y
C20_Witness ==
    /\ pc = "executed"
    /\ scenario.defs = <<"Id", "VarPlusVar">>
    /\ MainExpression.expr.value.expr.k = "BinaryOpExpression"
    /\ evaluateExpression(parsed.program, MainFrame, MainExpression.expr.value.expr.rhs, 1)
          = {Error(NotFound(<<"z">>))}
    /\ executed.st = "error"
    /\ executed.what = NotFound(<<"y">>)

(***************************************************************************)
(* A reader of the binary format of WebAssembly 1.0, written from the      *)
(* format and not from the emitter: the properties of the emitted bytes    *)
(* are stated on what this reader finds in them.  Every read is guarded,   *)
(* so that the reader gives ok = FALSE on bytes that are not a module.     *)
(***************************************************************************)
RefAt(bytes, pos) == IF pos \in 1..Len(bytes) THEN bytes[pos] ELSE -1

\* an unsigned LEB128 number of up to four bytes at pos
RECURSIVE RefUnsignedFrom(_, _, _)
RefUnsignedFrom(bytes, pos, depth) ==
    LET b == RefAt(bytes, pos)
    IN  IF b < 0 \/ depth > 3 THEN [ok |-> FALSE, value |-> 0, next |-> pos]
        ELSE IF b < 128 THEN [ok |-> TRUE, value |-> b, next |-> pos + 1]
        ELSE LET r == RefUnsignedFrom(bytes, pos + 1, depth + 1)
             IN  [ok |-> r.ok, value |-> (b - 128) + 128 * r.value, next |-> r.next]
RefUnsigned(bytes, pos) == RefUnsignedFrom(bytes, pos, 0)

\* the position after the signed LEB128 number of up to five bytes at pos
RefAfterSigned(bytes, pos) ==
    LET last(n) == /\ RefAt(bytes, pos + n) \in 0..127
                   /\ \A j \in 0..(n - 1) : RefAt(bytes, pos + j) >= 128
    IN  IF \E n \in 0..4 : last(n)
        THEN [ok |-> TRUE, next |-> pos + 1 + (CHOOSE n \in 0..4 : last(n))]
        ELSE [ok |-> FALSE, next |-> pos]

\* a vector of bytes at pos: its length, then that many bytes
RefByteVector(bytes, pos) ==
    LET n == RefUnsigned(bytes, pos)
    IN  IF n.ok /\ n.next + n.value <= Len(bytes) + 1
        THEN [ok |-> TRUE, items |-> SubSeq(bytes, n.next, n.next + n.value - 1),
              next |-> n.next + n.value]
        ELSE [ok |-> FALSE, items |-> <<>>, next |-> pos]

\* the sections from pos to the end: id, byte length, contents
RECURSIVE RefSectionsFrom(_, _)
RefSectionsFrom(bytes, pos) ==
    IF pos = Len(bytes) + 1 THEN [ok |-> TRUE, sections |-> <<>>]
    ELSE LET contents == RefByteVector(bytes, pos + 1)
         IN  IF ~contents.ok THEN [ok |-> FALSE, sections |-> <<>>]
             ELSE LET rest == RefSectionsFrom(bytes, contents.next)
                  IN  [ok |-> rest.ok,
                       sections |-> <<[id |-> bytes[pos], contents |-> contents.items]>>
                                    \o rest.sections]

RefHeader == <<0, 97, 115, 109, 1, 0, 0, 0>>

RefModule(bytes) ==
    IF Len(bytes) >= 8 /\ SubSeq(bytes, 1, 8) = RefHeader
    THEN RefSectionsFrom(bytes, 9)
    ELSE [ok |-> FALSE, sections |-> <<>>]

RefIds(module) == [i \in 1..Len(module.sections) |-> module.sections[i].id]

\* one item of the vector of a section
RefItem(kind, bytes, pos) ==
    CASE kind = "type" ->
            LET params == RefByteVector(bytes, pos + 1)
                results == RefByteVector(bytes, params.next)
            IN  IF RefAt(bytes, pos) = 96 /\ params.ok /\ results.ok
                   /\ (\A i \in 1..Len(params.items) : params.items[i] = 127)
                   /\ (\A i \in 1..Len(results.items) : results.items[i] = 127)
                THEN [ok |-> TRUE, next |-> results.next,
                      item |-> [params |-> Len(params.items),
                                results |-> Len(results.items)]]
                ELSE [ok |-> FALSE, next |-> pos, item |-> <<>>]
      [] kind = "import" ->
            LET module == RefByteVector(bytes, pos)
                name == RefByteVector(bytes, module.next)
                idx == RefUnsigned(bytes, name.next + 1)
            IN  IF module.ok /\ name.ok /\ RefAt(bytes, name.next) >= 0 /\ idx.ok
                THEN [ok |-> TRUE, next |-> idx.next,
                      item |-> [module |-> module.items, name |-> name.items,
                                kind |-> bytes[name.next], idx |-> idx.value]]
                ELSE [ok |-> FALSE, next |-> pos, item |-> <<>>]
      [] kind = "function" ->
            LET idx == RefUnsigned(bytes, pos)
            IN  [ok |-> idx.ok, next |-> idx.next, item |-> idx.value]
      [] kind = "export" ->
            LET name == RefByteVector(bytes, pos)
                idx == RefUnsigned(bytes, name.next + 1)
            IN  IF name.ok /\ RefAt(bytes, name.next) >= 0 /\ idx.ok
                THEN [ok |-> TRUE, next |-> idx.next,
                      item |-> [name |-> name.items, kind |-> bytes[name.next],
                                idx |-> idx.value]]
                ELSE [ok |-> FALSE, next |-> pos, item |-> <<>>]
      [] kind = "code" ->
            LET code == RefByteVector(bytes, pos)
            IN  [ok |-> code.ok, next |-> code.next, item |-> code.items]

RECURSIVE RefItems(_, _, _, _)
RefItems(kind, bytes, pos, count) ==
    IF count = 0 THEN [ok |-> pos = Len(bytes) + 1, items |-> <<>>]
    ELSE LET first == RefItem(kind, bytes, pos)
         IN  IF ~first.ok THEN [ok |-> FALSE, items |-> <<>>]
             ELSE LET rest == RefItems(kind, bytes, first.next, count - 1)
                  IN  [ok |-> rest.ok, items |-> <<first.item>> \o rest.items]

\* the vector that is the contents of the section with the id
RefVector(module, id, kind) ==
    IF \E i \in 1..Len(module.sections) : module.sections[i].id = id
    THEN LET contents == module.sections[CHOOSE i \in 1..Len(module.sections) :
                                            module.sections[i].id = id].contents
             count == RefUnsigned(contents, 1)
         IN  IF count.ok THEN RefItems(kind, contents, count.next, count.value)
             ELSE [ok |-> FALSE, items |-> <<>>]
    ELSE [ok |-> FALSE, items |-> <<>>]

\* the function index space: the imported functions, then the functions of
\* the function section; the type of each
RefFunctionTypes(module) ==
    LET types == RefVector(module, 1, "type")
        imports == RefVector(module, 2, "import")
        functions == RefVector(module, 3, "function")
        typeIdxs == [i \in 1..Len(imports.items) |-> imports.items[i].idx]
                    \o functions.items
    IN  IF types.ok /\ imports.ok /\ functions.ok
           /\ (\A i \in 1..Len(imports.items) : imports.items[i].kind = 0)
           /\ (\A i \in 1..Len(typeIdxs) : typeIdxs[i] < Len(types.items))
        THEN [ok |-> TRUE, types |-> [i \in 1..Len(typeIdxs) |-> types.items[typeIdxs[i] + 1]]]
        ELSE [ok |-> FALSE, types |-> <<>>]

\* the height of the operand stack after the instructions of code from pos
\* on, started at the height given: i32.const, the five i32 operators, call
\* and the closing end
RECURSIVE RefRun(_, _, _, _)
RefRun(code, pos, height, functionTypes) ==
    LET b == RefAt(code, pos)
    IN  CASE b = 11 -> [ok |-> pos = Len(code), height |-> height]
          [] b = 65 ->
                LET after == RefAfterSigned(code, pos + 1)
                IN  IF after.ok THEN RefRun(code, after.next, height + 1, functionTypes)
                    ELSE [ok |-> FALSE, height |-> height]
          [] b \in {106, 107, 108, 109, 111} ->
                IF height >= 2 THEN RefRun(code, pos + 1, height - 1, functionTypes)
                ELSE [ok |-> FALSE, height |-> height]
          [] b = 16 ->
                LET idx == RefUnsigned(code, pos + 1)
                IN  IF idx.ok /\ idx.value < Len(functionTypes)
                       /\ height >= functionTypes[idx.value + 1].params
                    THEN RefRun(code, idx.next,
                                height - functionTypes[idx.value + 1].params
                                + functionTypes[idx.value + 1].results, functionTypes)
                    ELSE [ok |-> FALSE, height |-> height]
          [] OTHER -> [ok |-> FALSE, height |-> height]

\* a code entry declares no locals and its instructions follow
RefBody(code, functionTypes) ==
    IF RefAt(code, 1) = 0 THEN RefRun(code, 2, 0, functionTypes)
    ELSE [ok |-> FALSE, height |-> 0]

(***************************************************************************)
(* C14: on every compile that returns true, the bytes in the sink are the  *)
(* header 00 61 73 6D 01 00 00 00, then one section each with the ids 1,   *)
(* 2, 3, 5, 7 and 10, in that order, each as its id, the ULEB128 byte      *)
(* length of its contents and the contents, and nothing else: read as      *)
(* sections, the bytes after the header end with the last section.         *)
(***************************************************************************)
C14_HeaderThenSixSections ==
    (pc = "compiled" /\ compiled.st = "true") =>
        /\ Len(compiled.bytes) >= 8
        /\ SubSeq(compiled.bytes, 1, 8) = <<0, 97, 115, 109, 1, 0, 0, 0>>
        /\ RefModule(compiled.bytes).ok
        /\ RefIds(RefModule(compiled.bytes)) = <<1, 2, 3, 5, 7, 10>>
        /\ RefVector(RefModule(compiled.bytes), 1, "type").ok
        /\ RefVector(RefModule(compiled.bytes), 2, "import").ok
        /\ RefVector(RefModule(compiled.bytes), 3, "function").ok
        /\ RefVector(RefModule(compiled.bytes), 7, "export").ok
        /\ RefVector(RefModule(compiled.bytes), 10, "code").ok
        /\ RefModule(compiled.bytes).sections[4].contents = <<1, 1, 0, 128, 8>>

\* the module of scenario 1: 108 bytes, its code section 13 bytes long
C14_Witness ==
    /\ pc = "compiled"
    /\ compiled.st = "true"
    /\ scenario.kind = "defs"
    /\ scenario.defs = <<"Main">>
    /\ Len(compiled.bytes) = 108
    /\ RefModule(compiled.bytes).sections[6] =
          [id |-> 10, contents |-> <<2, 4, 0, 65, 0, 11, 6, 0, 16, 1, 16, 0, 11>>]

(***************************************************************************)
(* C15: in the emitted module the imported proc_exit is function 0, the    *)
(* i-th function of Program.functions (from 0) is function 1 + i, and the  *)
(* injected _start is function 1 + N for N functions of the program; the   *)
(* export _start names function 1 + N, and the body of _start is           *)
(* 0x10 <index of main> 0x10 <index of proc_exit> and then 0x0B, wherever  *)
(* main stands among the definitions.                                      *)
(***************************************************************************)
\* the numbers of in and of out parameters of the type of function i of the
\* program
RefSignature(program, i) ==
    LET parameters == ParametersOf(program, i)
    IN  [params |-> Cardinality({j \in 1..Len(parameters) : parameters[j].direction = "in"}),
         results |-> Cardinality({j \in 1..Len(parameters) :
                                     parameters[j].direction = "out"})]

C15_FunctionIndices ==
    (pc = "compiled" /\ compiled.st = "true") =>
        LET module == RefModule(compiled.bytes)
            imports == RefVector(module, 2, "import").items
            exports == RefVector(module, 7, "export").items
            codes == RefVector(module, 10, "code").items
            functionTypes == RefFunctionTypes(module)
            N == Len(parsed.program.functions)
            main == parsed.program.mainFunction
        IN  \* function 0 is the one import, proc_exit of type [i32] -> []
            /\ Len(imports) = 1
            /\ imports[1] = [module |-> asBytes(s_wasi), name |-> asBytes(s_proc_exit),
                             kind |-> 0, idx |-> imports[1].idx]
            /\ functionTypes.ok
            /\ functionTypes.types[1] = [params |-> 1, results |-> 0]
            \* functions 1 .. N are the functions of the program, in order
            /\ Len(functionTypes.types) = N + 2
            /\ Len(codes) = N + 1
            /\ \A i \in 1..N : functionTypes.types[1 + i] = RefSignature(parsed.program, i)
            /\ \A i \in 1..N :
                  parsed.program.functions[i].expression.expr.value.expr.k = "Literal" =>
                     RefRun(codes[i], 2, 0, functionTypes.types) = [ok |-> TRUE, height |-> 1]
            \* function 1 + N is _start, of type [] -> []
            /\ functionTypes.types[N + 2] = [params |-> 0, results |-> 0]
            /\ Len(exports) = 2
            /\ exports[1] = [name |-> <<95, 115, 116, 97, 114, 116>>, kind |-> 0, idx |-> 1 + N]
            /\ exports[2] = [name |-> <<109, 101, 109, 111, 114, 121>>, kind |-> 2, idx |-> 0]
            /\ codes[N + 1] = <<0, 16, main, 16, 0, 11>>

\* main is the second of three functions: _start is function 4 and calls
\* function 2
C15_Witness ==
    /\ pc = "compiled"
    /\ compiled.st = "true"
    /\ scenario.defs = <<"F", "MainTight", "FTight">>
    /\ parsed.program.mainFunction = 2
    /\ RefVector(RefModule(compiled.bytes), 7, "export").items[1].idx = 4
    /\ RefVector(RefModule(compiled.bytes), 10, "code").items[4] = <<0, 16, 2, 16, 0, 11>>

(***************************************************************************)
(* C16: every module compile returns true for is valid in its operand      *)
(* stack typing: the body of each code entry, run from an empty operand    *)
(* stack, ends with as many i32 values as the type of its function has     *)
(* results, for every program parse accepts, the functions without an out  *)
(* parameter included.                                                     *)
(***************************************************************************)
\* the code entries of the module whose body does not end with the results
\* of its type; function i of the code section is function 1 + i of the
\* module, after the one import
IllTypedBodies(bytes) ==
    LET module == RefModule(bytes)
        codes == RefVector(module, 10, "code").items
        functionTypes == RefFunctionTypes(module).types
    IN  { i \in 1..Len(codes) :
            LET run == RefBody(codes[i], functionTypes)
            IN  ~(run.ok /\ run.height = functionTypes[1 + i].results) }

C16_BodiesMatchTheirTypes ==
    (pc = "compiled" /\ compiled.st = "true") => IllTypedBodies(compiled.bytes) = {}

\* the bodies are well typed when every function of the program has an out
\* parameter
C16_BodiesOfFunctionsWithAnOutMatch ==
    (/\ pc = "compiled"
     /\ compiled.st = "true"
     /\ \A i \in 1..Len(parsed.program.functions) :
           RefSignature(parsed.program, i).results = 1)
        => IllTypedBodies(compiled.bytes) = {}

\* def main = fun(out exitCode: i32) { exitCode = 0i32; };
\* def unit = fun() { x = 1i32; };
\* compiles into a sink that stays good, and the body of unit, of type
\* [] -> [], is i32.const 1, end
C16_UnitLeavesAValue ==
    (/\ pc = "compiled"
     /\ compiled.st # "false"
     /\ scenario.defs = <<"Main", "Unit">>)
        => /\ compiled.st = "true"
           /\ IllTypedBodies(compiled.bytes) = {2}
           /\ RefVector(RefModule(compiled.bytes), 10, "code").items[2] = <<0, 65, 1, 11>>
           /\ RefFunctionTypes(RefModule(compiled.bytes)).types[3]
                 = [params |-> 0, results |-> 0]

C16_UnitCompiled ==
    pc = "compiled" /\ compiled.st = "true" /\ scenario.defs = <<"Main", "Unit">>

(***************************************************************************)
(* compile on a Program built in memory, as the tests of the interpreter   *)
(* build theirs: the types i32, i64, fun(), the type of main and the type  *)
(* of g; the functions main and g.  The type of g has up to MaxParams      *)
(* parameters of any direction and any of the first three types; the body  *)
(* of g assigns a literal, a variable, a call or a sum holding one of      *)
(* them.  An Expression filled in member by member has the rep its maker   *)
(* gave it, and the empty rep when the maker gave none.                    *)
(***************************************************************************)
s_i64 == <<"i","6","4">>
BuiltTypeRefs == 1..3
BuiltParameters ==
    UNION { [1..n -> [direction : {"in", "out", "inout"}, type : BuiltTypeRefs]]
            : n \in 0..MaxParams }
BuiltBodies == {"literal", "var", "call", "literal+var", "(literal+call)+literal"}

RepIf(given, rep) == IF given THEN rep ELSE <<>>

\* the value g assigns; repNode is whether the sums and literals carry a rep,
\* repLeaf whether the variables and calls do
BuiltValue(body, repNode, repLeaf) ==
    LET literal == Expression(RepIf(repNode, <<"1","i","3","2">>), Literal(1))
        var == Expression(RepIf(repLeaf, <<"x">>), VarExpression(<<"x">>))
        call == Expression(RepIf(repLeaf, <<"f","(",")">>), FunctionCall(<<"f">>, <<>>))
        sum(lhs, rhs) == Expression(RepIf(repNode, <<"l","+","r">>),
                                    BinaryOpExpression("add", lhs, rhs))
    IN  CASE body = "literal" -> literal
          [] body = "var" -> var
          [] body = "call" -> call
          [] body = "literal+var" -> sum(literal, var)
          [] OTHER -> sum(sum(literal, call), literal)

BuiltProgram(parameters, body, repTop, repNode, repLeaf) ==
    [ types |->
        << Type(s_i32, BuiltInType(s_i32)),
           Type(s_i64, BuiltInType(s_i64)),
           Type(<<"f","u","n","(",")">>, FuncType(<<"f","u","n","(",")">>, <<>>)),
           Type(<<"m">>, FuncType(<<"m">>, <<FuncParameter(s_exitCode, "out", 1)>>)),
           Type(<<"g">>,
                FuncType(<<"g">>,
                         [i \in 1..Len(parameters) |->
                             FuncParameter(<<"p">>, parameters[i].direction,
                                           parameters[i].type)])) >>,
      functions |->
        << Function(s_main, <<"t">>, 4,
                    Expression(<<"m">>,
                               InitAssignment(s_exitCode,
                                              Expression(<<"0","i","3","2">>, Literal(0))))),
           Function(<<"g">>, <<"t">>, 5,
                    Expression(RepIf(repTop, <<"g">>),
                               InitAssignment(<<"r">>,
                                              BuiltValue(body, repNode, repLeaf)))) >>,
      mainFunction |-> 1 ]

BuiltPrograms ==
    { BuiltProgram(parameters, body, repTop, repNode, repLeaf) :
        parameters \in BuiltParameters, body \in BuiltBodies,
        repTop \in BOOLEAN, repNode \in BOOLEAN, repLeaf \in BOOLEAN }

InitCompile ==
    /\ scenario = NoScenario
    /\ source = <<>>
    /\ pc = "built"
    /\ \E program \in BuiltPrograms :
          parsed = [ok |-> TRUE, what |-> <<>>, program |-> program]
    /\ executed = NoExecution
    /\ locArg = 0
    /\ located = NoLocation
    /\ binArg = NoBinArg
    /\ binResult = NoBinResult
    /\ compiled = NoCompilation
    /\ slebArg = 0
    /\ slebBytes = <<>>
    /\ args = NoArgs
    /\ exitStatus = NotExited
    /\ cursor = 0
    /\ step = NoStep

NextCompile == Compile

SpecCompile == InitCompile /\ [][NextCompile]_vars

(***************************************************************************)
(* C17: compile never returns true for a program with an unsupported       *)
(* construct: when the body of a function holds a VarExpression or a       *)
(* FunctionCall at any depth, or a function type of Program.types has a    *)
(* parameter of a type other than i32, an inout parameter or more than one *)
(* out parameter, compile throws or returns false.                         *)
(***************************************************************************)
RECURSIVE HasVarOrCall(_)
HasVarOrCall(expression) ==
    LET e == expression.expr
    IN  CASE e.k \in {"VarExpression", "FunctionCall"} -> TRUE
          [] e.k = "InitAssignment" -> HasVarOrCall(e.value)
          [] e.k = "BinaryOpExpression" -> HasVarOrCall(e.lhs) \/ HasVarOrCall(e.rhs)
          [] OTHER -> FALSE

UnsupportedType(types, funcType) ==
    \/ \E i \in 1..Len(funcType.parameters) :
          \/ funcType.parameters[i].direction = "inout"
          \/ types[funcType.parameters[i].type].t.k # "BuiltInType"
          \/ types[funcType.parameters[i].type].t.name # s_i32
    \/ Cardinality({i \in 1..Len(funcType.parameters) :
                       funcType.parameters[i].direction = "out"}) > 1

Unsupported(program) ==
    \/ \E i \in 1..Len(program.functions) : HasVarOrCall(program.functions[i].expression)
    \/ \E i \in 1..Len(program.types) :
          /\ program.types[i].t.k = "FuncType"
          /\ UnsupportedType(program.types, program.types[i].t)

C17_UnsupportedNeverCompiles ==
    (pc = "compiled" /\ Unsupported(parsed.program)) => compiled.st \in {"error", "false"}

\* every Expression of the tree carries a rep
RECURSIVE EveryRepGiven(_)
EveryRepGiven(expression) ==
    LET e == expression.expr
    IN  /\ expression.rep # <<>>
        /\ CASE e.k = "InitAssignment" -> EveryRepGiven(e.value)
             [] e.k = "BinaryOpExpression" -> EveryRepGiven(e.lhs) /\ EveryRepGiven(e.rhs)
             [] OTHER -> TRUE

\* compile fails for the unsupported programs whose expressions all carry
\* a rep, as those of parse do
C17_UnsupportedWithEveryRepFails ==
    (/\ pc = "compiled"
     /\ Unsupported(parsed.program)
     /\ \A i \in 1..Len(parsed.program.functions) :
           EveryRepGiven(parsed.program.functions[i].expression))
        => compiled.st \in {"error", "false"}

\* g of type fun(out p: i32) assigns the variable x, in an Expression made
\* without a rep: compile returns true, and the code of g is call main,
\* call proc_exit, end
C17_VarWithoutRepCompiles ==
    (/\ pc = "compiled"
     /\ compiled.st # "false"
     /\ parsed.program = BuiltProgram(<<[direction |-> "out", type |-> 1]>>, "var",
                                      FALSE, FALSE, FALSE))
        => /\ Unsupported(parsed.program)
           /\ compiled.st = "true"
           /\ RefVector(RefModule(compiled.bytes), 10, "code").items[2] = <<0, 16, 1, 16, 0, 11>>

C17_VarWithoutRepCompiled ==
    /\ pc = "compiled"
    /\ compiled.st = "true"
    /\ parsed.program = BuiltProgram(<<[direction |-> "out", type |-> 1]>>, "var",
                                     FALSE, FALSE, FALSE)

(***************************************************************************)
(* writeSLEB128 on its own: the values around every power of two of the    *)
(* std::int32_t range, where the length of the encoding and the sign bit   *)
(* of its last byte change, the values of one and two bytes around zero,   *)
(* and the two ends of the range.                                          *)
(***************************************************************************)
RECURSIVE PowerOfTwo(_)
PowerOfTwo(k) == IF k = 0 THEN 1 ELSE 2 * PowerOfTwo(k - 1)

SLEBSamples ==
    UNION { {PowerOfTwo(k) - 1, PowerOfTwo(k), 0 - PowerOfTwo(k), (0 - PowerOfTwo(k)) - 1}
            : k \in 0..30 }
    \cup (-70..70) \cup {I32Min, I32Min + 1, I32Max}

InitSLEB ==
    /\ scenario = NoScenario
    /\ source = <<>>
    /\ pc = "start"
    /\ parsed = NoParse
    /\ executed = NoExecution
    /\ locArg = 0
    /\ located = NoLocation
    /\ binArg = NoBinArg
    /\ binResult = NoBinResult
    /\ compiled = NoCompilation
    /\ slebArg \in SLEBSamples
    /\ slebBytes = <<>>
    /\ args = NoArgs
    /\ exitStatus = NotExited
    /\ cursor = 0
    /\ step = NoStep

\* writeSLEB128(out, value) into an empty stream
Encode ==
    /\ pc = "start"
    /\ slebBytes' = writeSLEB128(slebArg)
    /\ pc' = "encoded"
    /\ UNCHANGED <<scenario, source, parsed, executed, locArg, located, binArg, binResult,
                   compiled, slebArg, args, exitStatus, cursor, step>>

NextSLEB == Encode

SpecSLEB == InitSLEB /\ [][NextSLEB]_vars

(***************************************************************************)
(* C18: for every i32 value v, the bytes of writeSLEB128(v) decode as      *)
(* signed LEB128 to v; every byte but the last has the continuation bit    *)
(* 0x80 set, the last has it clear and its bit 0x40 is the sign of v, and  *)
(* there are at most five bytes.                                           *)
(***************************************************************************)
\* the low seven bits of the last byte as a number in two's complement
RefSigned7(byte) == IF byte % 128 >= 64 THEN (byte % 128) - 128 ELSE byte % 128

\* signed LEB128: seven bits a byte, the least significant group first, the
\* last group extended by its sign
RECURSIVE RefSignedFrom(_, _)
RefSignedFrom(bytes, i) ==
    IF i = Len(bytes) THEN RefSigned7(bytes[i])
    ELSE (bytes[i] % 128) + 128 * RefSignedFrom(bytes, i + 1)

\* a number of up to five groups; the fifth group holds the bits 28 to 31
\* of an i32 and the copies of its sign
RefSignedDecode(bytes) ==
    IF /\ Len(bytes) \in 1..5
       /\ Len(bytes) = 5 => RefSigned7(bytes[5]) \in -8..7
    THEN [ok |-> TRUE, value |-> RefSignedFrom(bytes, 1)]
    ELSE [ok |-> FALSE, value |-> 0]

C18_SLEB128RoundTrip ==
    pc = "encoded" =>
        LET n == Len(slebBytes)
        IN  /\ n \in 1..5
            /\ \A i \in 1..(n - 1) : slebBytes[i] \in 128..255
            /\ slebBytes[n] \in 0..127
            /\ (slebBytes[n] >= 64) <=> (slebArg < 0)
            /\ RefSignedDecode(slebBytes) = [ok |-> TRUE, value |-> slebArg]

\* -65 takes two bytes and the least i32 five
C18_Witness ==
    /\ pc = "encoded"
    /\ \/ slebArg = -65 /\ slebBytes = <<191, 127>>
       \/ slebArg = I32Min /\ slebBytes = <<128, 128, 128, 128, 120>>

(***************************************************************************)
(* The driver, main of hobbyc, on a command line CLI11 accepted: args is   *)
(* the number of input files named, all of them existing, and whether -x   *)
(* was given; source is the content of the first file.                     *)
(***************************************************************************)
DriverScenarios ==
    { CallScenario(defs) : defs \in CallPrograms }
    \cup { ArithScenario(e) : e \in SampleChains \cup {Chain(<<Lit(1), Lit(0)>>, <<"divide">>)} }
    \cup { DefsScenario(defs) :
             defs \in {<<>>, <<"Unfinished">>, <<"F">>, <<"Main", "Main">>, <<"Main", "F">>} }

InitDriver ==
    /\ scenario \in DriverScenarios
    /\ source = Render(scenario)
    /\ pc = "start"
    /\ parsed = NoParse
    /\ executed = NoExecution
    /\ locArg = 0
    /\ located = NoLocation
    /\ binArg = NoBinArg
    /\ binResult = NoBinResult
    /\ compiled = NoCompilation
    /\ slebArg = 0
    /\ slebBytes = <<>>
    /\ args \in [files : 0..2, execute : BOOLEAN]
    /\ exitStatus = NotExited
    /\ cursor = 0
    /\ step = NoStep

\* the handler of the function-try-block of main logs the exception and
\* ends: control flows off the end of main, which returns 0
CaughtInMain == Exited(0)

\* the end of main after execute: the result is printed and main returns
\* EXIT_SUCCESS, the exception is caught, or the process was killed
AfterExecute(outcome) ==
    CASE outcome.st = "value" -> EXIT_SUCCESS
      [] outcome.st = "error" -> CaughtInMain
      [] OTHER -> Killed

\* the end of main after compile: true and false are logged and main
\* returns EXIT_SUCCESS, the exception is caught
AfterCompile(outcome) ==
    IF outcome.st = "error" THEN CaughtInMain ELSE EXIT_SUCCESS

\* int main(int argc, const char** argv), from the check of inputFiles on.
\* A program parse returns has its mainFunction set (parser.cpp:727), so
\* the dump of the program ends.
Main ==
    /\ pc = "start"
    /\ pc' = "exited"
    /\ IF args.files = 0 \/ args.files > 1
       THEN /\ exitStatus' = EXIT_FAILURE
            /\ UNCHANGED <<parsed, executed, compiled>>
       ELSE Let(parse(source, FileName), LAMBDA parsedProgram :
            /\ parsed' = parsedProgram
            /\ IF ~parsedProgram.ok
               THEN /\ exitStatus' = CaughtInMain
                    /\ UNCHANGED <<executed, compiled>>
               ELSE IF args.execute
               THEN /\ \E outcome \in execute(parsedProgram.program) :
                          /\ executed' = outcome
                          /\ exitStatus' = AfterExecute(outcome)
                    /\ UNCHANGED compiled
               ELSE /\ \E sinkGood \in BOOLEAN,
                          firstMain \in MainsInIndex(parsedProgram.program) :
                          Let(compile(parsedProgram.program, sinkGood, firstMain),
                              LAMBDA outcome :
                                 /\ compiled' = outcome
                                 /\ exitStatus' = AfterCompile(outcome))
                    /\ UNCHANGED executed)
    /\ UNCHANGED <<scenario, source, locArg, located, binArg, binResult,
                   slebArg, slebBytes, args, cursor, step>>

NextDriver == Main

SpecDriver == InitDriver /\ [][NextDriver]_vars

(***************************************************************************)
(* C19: the driver exits with code 1 on every error outcome, that is on    *)
(* missing or multiple input files, a parse failure, an evaluation failure *)
(* under -x, and an emit failure (compile throwing or returning false),    *)
(* and exits with code 0 only when the operation selected succeeded.       *)
(***************************************************************************)
\* the run ended in an error outcome
ErrorOutcome ==
    \/ args.files # 1
    \/ ~parsed.ok
    \/ args.execute /\ executed.st = "error"
    \/ ~args.execute /\ compiled.st \in {"error", "false"}

C19_ExitCodeTellsErrors ==
    pc = "exited" =>
        /\ ErrorOutcome => exitStatus = Exited(1)
        /\ exitStatus = Exited(0) => ~ErrorOutcome

\* the checks of inputFiles are the only way to the exit code 1
C19_OnlyTheFileCountFails ==
    pc = "exited" => (exitStatus = Exited(1) <=> args.files # 1)

\* every failure of parse, execute and compile ends in the exit code 0
C19_FailuresExitWithZero ==
    (pc = "exited" /\ args.files = 1 /\ ErrorOutcome) => exitStatus = Exited(0)

\* an empty input file: parse fails and the driver exits with 0
C19_ParseFailureExitsWithZero ==
    /\ pc = "exited"
    /\ args.files = 1
    /\ source = <<>>
    /\ ~parsed.ok
    /\ exitStatus = Exited(0)

\* the four kinds of failure are met
C19_EvaluationFailureMet ==
    pc = "exited" /\ args.files = 1 /\ args.execute /\ executed.st = "error"
C19_EmitErrorMet ==
    pc = "exited" /\ args.files = 1 /\ ~args.execute /\ compiled.st = "error"
C19_BadSinkMet ==
    pc = "exited" /\ args.files = 1 /\ ~args.execute /\ compiled.st = "false"

(***************************************************************************)
(* C21: a FunctionCall resolves its callee to the first function of        *)
(* Program.functions, in the order of the definitions, whose name is the   *)
(* functionName, also when several definitions other than main share the   *)
(* name, which the parser accepts; when no function has the name the call  *)
(* fails when it is evaluated, not when it is parsed.                      *)
(***************************************************************************)
\* the value the definition assigns
ValueOfF == [F |-> 1, FTight |-> 2]

\* the first definition of f in the list of definitions
FirstF(defs) ==
    defs[CHOOSE i \in 1..Len(defs) :
            /\ defs[i] \in {"F", "FTight"}
            /\ \A j \in 1..(i - 1) : defs[j] \notin {"F", "FTight"}]

C21_CallResolvesToFirstDefinition ==
    \* the lookup gives the least place of the name
    /\ (pc # "start" /\ parsed.ok) =>
          \A i \in 1..Len(parsed.program.functions) :
             LET functions == parsed.program.functions
                 found == FindFunction(functions, functions[i].name, 1)
             IN  /\ found \in 1..i
                 /\ functions[found].name = functions[i].name
                 /\ \A j \in 1..(found - 1) : functions[j].name # functions[i].name
    \* two definitions of f parse, and the call yields the value of the first
    /\ (pc # "start" /\ scenario.defs \in DuplicatePrograms) =>
          /\ parsed.ok
          /\ Len(parsed.program.functions) = 3
          /\ Cardinality({i \in 1..3 : parsed.program.functions[i].name = <<"f">>}) = 2
    /\ (pc = "executed" /\ scenario.defs \in DuplicatePrograms) =>
          executed = [st |-> "value", value |-> ValueOfF[FirstF(scenario.defs)],
                      what |-> <<>>]
    \* a call of a function no definition names parses and fails in execute
    /\ (pc # "start" /\ scenario.defs \in {<<"CallF">>, <<"CallF", "Id">>}) => parsed.ok
    /\ (pc = "executed" /\ scenario.defs \in {<<"CallF">>, <<"CallF", "Id">>}) =>
          executed = [st |-> "error", value |-> 0,
                      what |-> <<"Couldn't find function ", "f">>]

\* f is defined as 2 and then as 1: the call yields 2
C21_Witness ==
    /\ pc = "executed"
    /\ scenario.defs = <<"FTight", "F", "CallF">>
    /\ executed.st = "value"
    /\ executed.value = 2

\* the call of the undefined f has been evaluated
C21_UndefinedCalleeMet ==
    pc = "executed" /\ scenario.defs = <<"CallF">> /\ executed.st = "error"

(***************************************************************************)
(* C22: the rep of an Expression is used for diagnostics only: for two     *)
(* Programs that are the same but for the rep strings of their             *)
(* expressions, a Program whose expressions have the empty rep included,   *)
(* compile writes the same bytes, each body lowered by the alternative its *)
(* expression holds.                                                       *)
(***************************************************************************)
\* the expression with rep as the rep of every Expression in it
RECURSIVE WithRep(_, _)
WithRep(expression, rep) ==
    LET e == expression.expr
    IN  Expression(rep,
           CASE e.k = "InitAssignment" -> InitAssignment(e.var, WithRep(e.value, rep))
             [] e.k = "BinaryOpExpression" ->
                   BinaryOpExpression(e.op, WithRep(e.lhs, rep), WithRep(e.rhs, rep))
             [] e.k = "FunctionCall" ->
                   FunctionCall(e.functionName,
                                [i \in 1..Len(e.arguments) |->
                                    FuncArgument(e.arguments[i].name, e.arguments[i].direction,
                                                 WithRep(e.arguments[i].expr, rep))])
             [] OTHER -> e)

\* the program with rep as the rep of every Expression of every function
ProgramWithRep(program, rep) ==
    [program EXCEPT !.functions =
        [i \in 1..Len(program.functions) |->
            [program.functions[i] EXCEPT !.expression = WithRep(@, rep)]]]

C22_RepDoesNotChangeTheBytes ==
    (pc = "compiled" /\ compiled.st = "true") =>
        \A rep \in {<<>>, <<"y">>}, firstMain \in MainsInIndex(parsed.program) :
           compile(ProgramWithRep(parsed.program, rep), TRUE, firstMain) = compiled

\* the bytes are the same for every rep that is not empty
C22_GivenRepsDoNotChangeTheBytes ==
    (/\ pc = "compiled"
     /\ compiled.st = "true"
     /\ \A i \in 1..Len(parsed.program.functions) :
           EveryRepGiven(parsed.program.functions[i].expression))
        => \A rep \in {<<"y">>, <<"1","i","3","2">>},
              firstMain \in MainsInIndex(parsed.program) :
              compile(ProgramWithRep(parsed.program, rep), TRUE, firstMain) = compiled

\* g of type fun(out p: i32) assigns the literal 1.  With its reps the code
\* of g is i32.const 1, end; with the rep of its expression empty it is
\* call main, call proc_exit, end
C22_EmptyRepChangesTheBody ==
    (/\ pc = "compiled"
     /\ compiled.st = "true"
     /\ parsed.program = BuiltProgram(<<[direction |-> "out", type |-> 1]>>, "literal",
                                      TRUE, TRUE, TRUE))
        => /\ RefVector(RefModule(compiled.bytes), 10, "code").items[2] = <<0, 65, 1, 11>>
           /\ RefVector(RefModule(compile(ProgramWithRep(parsed.program, <<>>), TRUE,
                                          1).bytes),
                        10, "code").items[2] = <<0, 16, 1, 16, 0, 11>>

C22_LiteralWithRepCompiled ==
    /\ pc = "compiled"
    /\ compiled.st = "true"
    /\ parsed.program = BuiltProgram(<<[direction |-> "out", type |-> 1]>>, "literal",
                                     TRUE, TRUE, TRUE)

(***************************************************************************)
(* A Program used again after compile: it is compiled, and then executed   *)
(* or compiled a second time.                                              *)
(***************************************************************************)
InitReuse ==
    /\ scenario \in DriverScenarios
    /\ source = Render(scenario)
    /\ pc = "start"
    /\ parsed = NoParse
    /\ executed = NoExecution
    /\ locArg = 0
    /\ located = NoLocation
    /\ binArg = NoBinArg
    /\ binResult = NoBinResult
    /\ compiled = NoCompilation
    /\ slebArg = 0
    /\ slebBytes = <<>>
    /\ args = NoArgs
    /\ exitStatus = NotExited
    /\ cursor = 0
    /\ step = NoStep

\* jereq::execute(program) after jereq::compile(program, out) has ended
ExecuteAfterCompile ==
    /\ pc = "compiled"
    /\ \E outcome \in execute(parsed.program) : executed' = outcome
    /\ pc' = "executed after compile"
    /\ UNCHANGED <<scenario, source, parsed, locArg, located, binArg, binResult,
                   compiled, slebArg, slebBytes, args, exitStatus, cursor, step>>

\* jereq::compile(program, out) a second time, into another sink
CompileAgain ==
    /\ pc = "compiled"
    /\ \E sinkGood \in BOOLEAN, firstMain \in MainsInIndex(parsed.program) :
          compiled' = compile(parsed.program, sinkGood, firstMain)
    /\ parsed' = [parsed EXCEPT !.program = ProgramAfterCompile(@)]
    /\ pc' = "compiled again"
    /\ UNCHANGED <<scenario, source, executed, locArg, located, binArg, binResult,
                   slebArg, slebBytes, args, exitStatus, cursor, step>>

NextReuse == Parse \/ Compile \/ ExecuteAfterCompile \/ CompileAgain

SpecReuse == InitReuse /\ [][NextReuse]_vars

(***************************************************************************)
(* C23: compile leaves the Program unchanged on every way out: types,      *)
(* functions and mainFunction hold the entries they held, the injected     *)
(* _start and the injected types are in the copies of the emitter only,    *)
(* and an execute or a second compile afterwards behaves as on the Program *)
(* parse returned.                                                         *)
(***************************************************************************)
C23_CompileLeavesTheProgram ==
    pc \in {"compiled", "compiled again", "executed after compile"} =>
        Let(parse(source, FileName), LAMBDA fresh :
            /\ parsed = fresh
            /\ \A i \in 1..Len(parsed.program.functions) :
                  parsed.program.functions[i].name # s_start
            /\ pc = "executed after compile" => executed \in execute(fresh.program)
            /\ pc = "compiled again" =>
                  compiled \in { compile(fresh.program, sinkGood, firstMain) :
                                    sinkGood \in BOOLEAN,
                                    firstMain \in MainsInIndex(fresh.program) })

\* a program compiled twice with success, and the second module is the
\* 108 bytes of the first
C23_Witness ==
    /\ pc = "compiled again"
    /\ scenario.defs = <<"Main", "F">>
    /\ compiled.st = "true"
    /\ Len(parsed.program.functions) = 2
    /\ Len(parsed.program.types) = 3
    /\ RefIds(RefModule(compiled.bytes)) = <<1, 2, 3, 5, 7, 10>>

\* a program compiled with an emit error and executed afterwards
C23_ExecutedAfterEmitError ==
    /\ pc = "executed after compile"
    /\ compiled.st = "error"
    /\ executed.st = "value"

(***************************************************************************)
(* The parsing routines on their own: each routine, and each loop from the *)
(* start of an iteration, applied at every byte offset of a source text,   *)
(* and parse applied to the text from the offset on.  The texts are        *)
(* programs of several definitions, parameters, statements and operators,  *)
(* and every prefix of two of them, which end in the middle of a           *)
(* construct.                                                              *)
(***************************************************************************)
CursorScenarios ==
    { CallScenario(defs) :
        defs \in { <<"Id", "CallIdSum">>, <<"F", "Id", "CallPlusCall">>, <<"Cb", "CallCb">>,
                   <<"Two", "TwoStatements", "NestedVarPlusVar">>,
                   <<"CallFInOutArg", "InOut">>, <<"Unfinished">>,
                   <<"MainTight", "FTight">> } }
    \cup { ArithScenario(e) : e \in SampleChains }

TruncatedScenarios ==
    { CallScenario(<<"Id">>), CallScenario(<<"NestedVarPlusVar">>) }

CursorTexts ==
    { <<s, Render(s)>> : s \in CursorScenarios }
    \cup UNION { { <<s, SubSeq(Render(s), 1, n)>> : n \in 0..Len(Render(s)) }
                 : s \in TruncatedScenarios }

InitCursor ==
    /\ \E text \in CursorTexts :
          /\ scenario = text[1]
          /\ source = text[2]
    /\ pc = "start"
    /\ parsed = NoParse
    /\ executed = NoExecution
    /\ locArg = 0
    /\ located = NoLocation
    /\ binArg = NoBinArg
    /\ binResult = NoBinResult
    /\ compiled = NoCompilation
    /\ slebArg = 0
    /\ slebBytes = <<>>
    /\ args = NoArgs
    /\ exitStatus = NotExited
    /\ cursor \in 0..Len(source)
    /\ step = NoStep

Literals == {s_def, s_fun, s_in, s_out, s_inout, <<"(">>, <<")">>, <<",">>, <<":">>, <<"=">>}

Routines ==
    { "parseWhitespace", "skipWhitespace", "parseIdentifier", "parseParameterDirection",
      "parseFuncTypeParameter", "parseMoreParameters", "parseFuncType", "parseType",
      "parseVarExpression", "parseNumberWithType", "parseFunctionCall", "parseTerm",
      "parseOperatorLoop", "parseExpressionTerms", "parseExpression",
      "parseBodyExpressions", "parseFunctionBody", "parseDefinition", "parseDefinitions",
      "parse" }

\* how a routine ended: it returned a result with ok set and the remaining
\* input, it returned the empty result, or it threw
Ended(routine, result) ==
    [routine |-> routine, ok |-> result.ok, thrown |-> result.thrown,
     remaining |-> result.remaining]

\* skipWhitespace returns the remaining input and nothing else
Returned(routine, remaining) ==
    [routine |-> routine, ok |-> TRUE, thrown |-> FALSE, remaining |-> remaining]

\* parse returns the Program, with the whole input read, or throws
EndedParse(input, program) ==
    [routine |-> "parse", ok |-> program.ok, thrown |-> ~program.ok,
     remaining |-> IF program.ok THEN consume(input, CurSize(input)) ELSE NoInput]

Apply(routine, input) ==
    CASE routine = "parseWhitespace" -> Ended(routine, parseWhitespace(input))
      [] routine = "skipWhitespace" -> Returned(routine, skipWhitespace(input))
      [] routine = "parseIdentifier" -> Ended(routine, parseIdentifier(input))
      [] routine = "parseParameterDirection" ->
            Ended(routine, parseParameterDirection(input))
      [] routine = "parseFuncTypeParameter" ->
            Ended(routine, parseFuncTypeParameter(EmptyProgram, input))
      [] routine = "parseMoreParameters" ->
            Ended(routine, parseMoreParameters(EmptyProgram, input, <<>>))
      [] routine = "parseFuncType" -> Ended(routine, parseFuncType(EmptyProgram, input))
      [] routine = "parseType" -> Ended(routine, parseType(EmptyProgram, input))
      [] routine = "parseVarExpression" -> Ended(routine, parseVarExpression(input))
      [] routine = "parseNumberWithType" -> Ended(routine, parseNumberWithType(input))
      [] routine = "parseFunctionCall" -> Ended(routine, parseFunctionCall(input))
      [] routine = "parseTerm" -> Ended(routine, parseTerm(input))
      [] routine = "parseOperatorLoop" ->
            Ended(routine, parseOperatorLoop(input, Expression(<<"0">>, Literal(0)), input))
      [] routine = "parseExpressionTerms" -> Ended(routine, parseExpressionTerms(input))
      [] routine = "parseExpression" -> Ended(routine, parseExpression(input))
      [] routine = "parseBodyExpressions" ->
            Ended(routine, parseBodyExpressions(input, <<>>))
      [] routine = "parseFunctionBody" -> Ended(routine, parseFunctionBody(input))
      [] routine = "parseDefinition" -> Ended(routine, parseDefinition(EmptyProgram, input))
      [] routine = "parseDefinitions" ->
            Ended(routine, parseDefinitions(EmptyProgram, input))
      [] OTHER ->
            EndedParse(input, parse(View(input.full, input.pos, Len(input.full)), input.name))

CursorInput == [pos |-> cursor, full |-> source, name |-> FileName]

\* one routine applied to the input whose current starts at the cursor
ApplyRoutine ==
    /\ pc = "start"
    /\ \E routine \in Routines : step' = Apply(routine, CursorInput)
    /\ pc' = "stepped"
    /\ UNCHANGED <<scenario, source, parsed, executed, locArg, located, binArg, binResult,
                   compiled, slebArg, slebBytes, args, exitStatus, cursor>>

\* parseLiteral(input, literal) for the literals the parser looks for
ApplyParseLiteral ==
    /\ pc = "start"
    /\ \E literal \in Literals : step' = Ended("parseLiteral", parseLiteral(CursorInput, literal))
    /\ pc' = "stepped"
    /\ UNCHANGED <<scenario, source, parsed, executed, locArg, located, binArg, binResult,
                   compiled, slebArg, slebBytes, args, exitStatus, cursor>>

NextCursor == ApplyRoutine \/ ApplyParseLiteral

SpecCursor == InitCursor /\ [][NextCursor]_vars

(***************************************************************************)
(* C24: the cursor of the parser only moves forward and parse ends on      *)
(* every finite input: the remaining input a parsing routine returns is a  *)
(* suffix of the input it was given, and every iteration of the loop over  *)
(* the definitions, over the expressions of a body, over the parameters    *)
(* and over the operators throws or consumes at least one byte, so that    *)
(* parse returns a Program or fails.                                       *)
(***************************************************************************)
\* the condition under which the loop runs an iteration on the input
LoopRuns(routine, input) ==
    CASE routine = "parseDefinitions" -> ~CurEmpty(input)
      [] routine = "parseBodyExpressions" ->
            ~CurEmpty(input) /\ input.full[input.pos + 1] # "}"
      [] routine = "parseMoreParameters" ->
            ~CurEmpty(input) /\ input.full[input.pos + 1] = ","
      [] routine = "parseOperatorLoop" ->
            ~CurEmpty(input) /\ input.full[input.pos + 1] \in {"+", "-", "*", "/", "%"}
      [] OTHER -> FALSE

C24_CursorMovesForward ==
    pc = "stepped" =>
        \* the routine ended in one of the three ways
        /\ ~(step.ok /\ step.thrown)
        /\ step.routine = "parse" => (step.ok \/ step.thrown)
        \* the remaining input is a suffix of the input given
        /\ step.ok =>
              /\ step.remaining.full = source
              /\ step.remaining.pos \in cursor..Len(source)
        \* a loop that runs an iteration and does not throw has consumed a byte
        /\ (step.ok /\ LoopRuns(step.routine, CursorInput)) => step.remaining.pos > cursor
        \* so has the body of an iteration of the definition loop and of the
        \* body loop
        /\ (step.ok /\ step.routine \in {"parseDefinition", "parseExpression"}) =>
              step.remaining.pos > cursor

\* the loop over the parameters from the comma after `in x: i32` on: one
\* iteration, to the closing parenthesis
C24_Witness ==
    /\ pc = "stepped"
    /\ scenario = CallScenario(<<"Id", "CallIdSum">>)
    /\ source = Render(scenario)
    /\ step.routine = "parseMoreParameters"
    /\ step.ok
    /\ source[cursor + 1] = ","
    /\ step.remaining.pos > cursor + 1
    /\ source[step.remaining.pos + 1] = ")"

\* the loops of the operators, of the body and of the definitions have run
\* more than one iteration
C24_OperatorLoopMet ==
    /\ pc = "stepped"
    /\ step.routine = "parseOperatorLoop"
    /\ step.ok
    /\ Cardinality({i \in (cursor + 1)..step.remaining.pos :
                       source[i] \in {"+", "-", "*", "/", "%"}}) >= 2
C24_DefinitionLoopMet ==
    /\ pc = "stepped"
    /\ step.routine = "parseDefinitions"
    /\ step.ok
    /\ cursor = 0
    /\ Len(scenario.defs) = 3
C24_BodyLoopMet ==
    /\ pc = "stepped"
    /\ step.routine = "parseBodyExpressions"
    /\ step.ok
    /\ Cardinality({i \in (cursor + 1)..step.remaining.pos : source[i] = ";"}) = 2

(***************************************************************************)
(* C25: execute returns, with an exit code or an error, for every Program  *)
(* in which no function reaches itself through calls.  The language has no *)
(* conditional, so a call that enters the body of a function that is       *)
(* already running is repeated for ever.  A call that comes back to a      *)
(* running function without an argument for one of its in parameters does  *)
(* not enter the body: it throws, and execute fails with that error.       *)
(***************************************************************************)
\* the names of the functions an expression calls
RECURSIVE RefCalleeNames(_)
RefCalleeNames(expression) ==
    LET e == expression.expr
    IN  CASE e.k = "InitAssignment" -> RefCalleeNames(e.value)
          [] e.k = "BinaryOpExpression" -> RefCalleeNames(e.lhs) \cup RefCalleeNames(e.rhs)
          [] e.k = "FunctionCall" ->
                {e.functionName}
                \cup UNION { RefCalleeNames(e.arguments[i].expr) : i \in 1..Len(e.arguments) }
          [] OTHER -> {}

\* the first function of the name, 0 when there is none
RefFirstNamed(program, name) ==
    IF \E i \in 1..Len(program.functions) : program.functions[i].name = name
    THEN CHOOSE i \in 1..Len(program.functions) :
            /\ program.functions[i].name = name
            /\ \A j \in 1..(i - 1) : program.functions[j].name # name
    ELSE 0

\* <<i, j>>: the body of function i holds a call that resolves to function j
RefCalls(program) ==
    { c \in (1..Len(program.functions)) \X (1..Len(program.functions)) :
        \E name \in RefCalleeNames(program.functions[c[1]].expression) :
           RefFirstNamed(program, name) = c[2] }

\* R and the pairs that chains of up to 2^n pairs of R join
RECURSIVE RefClosure(_, _)
RefClosure(R, n) ==
    IF n = 0 THEN R
    ELSE RefClosure(R \cup { <<pq[1][1], pq[2][2]>>
                             : pq \in { x \in R \X R : x[1][2] = x[2][1] } }, n - 1)

\* no function reaches itself through a chain of calls
RefAcyclic(program) ==
    \A c \in RefClosure(RefCalls(program), Len(program.functions)) : c[1] # c[2]

\* the call the body of function i evaluates first and without fail: the
\* body is  v = g(in a: literal, ...)  for a parameter v of the function
NoCall == [k |-> "none"]
RefCallIn(program, i) ==
    LET function == program.functions[i]
        e == function.expression.expr
        parameters == program.types[function.type].t.parameters
    IN  IF /\ e.k = "InitAssignment"
           /\ \E p \in 1..Len(parameters) : parameters[p].name = e.var
           /\ e.value.expr.k = "FunctionCall"
           /\ \A a \in 1..Len(e.value.expr.arguments) :
                 /\ e.value.expr.arguments[a].direction = "in"
                 /\ e.value.expr.arguments[a].expr.expr.k = "Literal"
        THEN e.value.expr
        ELSE NoCall

\* the call finds function j and executeFunction gets to the body of j:
\* every parameter is an i32, in or out, and every in parameter has its
\* argument
RefEnters(program, call, j) ==
    /\ j # 0
    /\ program.types[program.functions[j].type].t.k = "FuncType"
    /\ LET parameters == program.types[program.functions[j].type].t.parameters
       IN  \A p \in 1..Len(parameters) :
              /\ program.types[parameters[p].type].t.k = "BuiltInType"
              /\ program.types[parameters[p].type].t.name = s_i32
              /\ parameters[p].direction \in {"in", "out"}
              /\ parameters[p].direction = "in" =>
                    \E a \in 1..Len(call.arguments) :
                       call.arguments[a].name = parameters[p].name

\* the functions whose bodies run, in the order they are entered, from
\* function i on and for up to n calls
RECURSIVE RefChainFrom(_, _, _)
RefChainFrom(program, i, n) ==
    LET call == RefCallIn(program, i)
        j == IF call = NoCall THEN 0 ELSE RefFirstNamed(program, call.functionName)
    IN  IF n = 0 \/ call = NoCall \/ ~RefEnters(program, call, j) THEN <<i>>
        ELSE <<i>> \o RefChainFrom(program, j, n - 1)

RefChain(program) == RefChainFrom(program, program.mainFunction, Len(program.functions))

\* a call that is evaluated names a function that is running
RefRevisits(program) ==
    LET chain == RefChain(program)
    IN  \E k \in 1..Len(chain) :
           LET call == RefCallIn(program, chain[k])
           IN  /\ call # NoCall
               /\ \E m \in 1..k : chain[m] = RefFirstNamed(program, call.functionName)

\* and the call enters the body of that function again
RefReenters(program) ==
    LET chain == RefChain(program)
    IN  \E k \in 1..Len(chain) :
           LET call == RefCallIn(program, chain[k])
               j == IF call = NoCall THEN 0 ELSE RefFirstNamed(program, call.functionName)
           IN  /\ call # NoCall
               /\ \E m \in 1..k : chain[m] = j
               /\ RefEnters(program, call, j)

\* C25 as stated: execute returns when no function reaches itself, and never
\* returns when an evaluated call names a function that is running
C25_RevisitNeverReturns ==
    /\ (pc = "executed" /\ RefAcyclic(parsed.program)) => executed.st # "stack"
    /\ (pc = "executed" /\ RefRevisits(parsed.program)) => executed.st = "stack"

\* C25, amended: execute returns when no function reaches itself; it never
\* returns when a call enters the body of a function that is running; and
\* it fails with the error of the missing argument when the call that names
\* the running function lacks an argument for one of its in parameters
C25_ReentryNeverReturns ==
    /\ (pc = "executed" /\ RefAcyclic(parsed.program)) => executed.st # "stack"
    /\ (pc = "executed" /\ RefReenters(parsed.program)) => executed.st = "stack"
    /\ (pc = "executed" /\ RefRevisits(parsed.program) /\ ~RefReenters(parsed.program)) =>
          /\ executed.st = "error"
          /\ executed.what = <<"No arg provided for param  \"", "x", "\"">>

\* main calls ping, ping calls pong and pong calls ping: execute never returns
C25_Witness ==
    /\ pc = "executed"
    /\ scenario.defs = <<"Ping", "Pong", "CallPing">>
    /\ RefReenters(parsed.program)
    /\ ~RefAcyclic(parsed.program)
    /\ executed.st = "stack"

\* main calls mid and mid calls f: the chain ends and execute returns 2
C25_ChainEnds ==
    /\ pc = "executed"
    /\ scenario.defs = <<"Mid", "F", "CallMid">>
    /\ RefAcyclic(parsed.program)
    /\ executed.st = "value"
    /\ executed.value = 2

\* the body of main calls main
C25_MainCallsMain ==
    /\ pc = "executed"
    /\ scenario.defs = <<"MainCallsMain">>
    /\ RefReenters(parsed.program)
    /\ executed.st = "stack"

\* count calls count without the argument x: execute fails
C25_RevisitThatReturns ==
    /\ pc = "executed"
    /\ scenario.defs = <<"Count", "CallCount">>
    /\ RefRevisits(parsed.program)
    /\ ~RefReenters(parsed.program)
    /\ executed.st = "error"

\* a function that reaches itself and is never called: execute returns
C25_UncalledLoop ==
    /\ pc = "executed"
    /\ scenario.defs = <<"Main", "Loop">>
    /\ ~RefAcyclic(parsed.program)
    /\ executed.st = "value"

(***************************************************************************)
(* C26: the interpreter and the emitter agree on literal arithmetic.  For  *)
(* a parsed main whose body is  exitCode = E;  with E made of literals and *)
(* binary operators only, the instructions emitted for the body of main,   *)
(* run on a stack machine (i32.const pushes its operand; 0x6A, 0x6B, 0x6C, *)
(* 0x6D and 0x6F pop rhs, then lhs, and push lhs op rhs), leave exactly    *)
(* the value execute returns: the operands are emitted lhs, rhs, operator. *)
(* The machine traps only where the evaluation is undefined.               *)
(***************************************************************************)
\* E is made of literals and binary operators
RECURSIVE RefLiteralArithmetic(_)
RefLiteralArithmetic(expression) ==
    LET e == expression.expr
    IN  CASE e.k = "Literal" -> TRUE
          [] e.k = "BinaryOpExpression" ->
                RefLiteralArithmetic(e.lhs) /\ RefLiteralArithmetic(e.rhs)
          [] OTHER -> FALSE

\* the body of main is  exitCode = E;
RefLiteralMain(program) ==
    /\ program.mainFunction \in 1..Len(program.functions)
    /\ LET e == program.functions[program.mainFunction].expression.expr
       IN  /\ e.k = "InitAssignment"
           /\ e.var = s_exitCode
           /\ RefLiteralArithmetic(e.value)

RefOperatorOf(opcode) ==
    CASE opcode = 106 -> "add"
      [] opcode = 107 -> "subtract"
      [] opcode = 108 -> "multiply"
      [] opcode = 109 -> "divide"
      [] opcode = 111 -> "modulo"

\* the stack machine: the instructions of code from pos on, on the stack
\* given.  i32.div_s traps on a zero divisor and on -2^31 / -1, i32.rem_s on
\* a zero divisor; the other results are reduced to 32 bits.
RECURSIVE RefMachine(_, _, _)
RefMachine(code, pos, stack) ==
    LET b == RefAt(code, pos)
        n == Len(stack)
    IN  CASE b = 11 -> [ok |-> pos = Len(code), trapped |-> FALSE, stack |-> stack]
          [] b = 65 ->
                LET after == RefAfterSigned(code, pos + 1)
                    operand == IF after.ok
                               THEN RefSignedDecode(SubSeq(code, pos + 1, after.next - 1))
                               ELSE [ok |-> FALSE, value |-> 0]
                IN  IF operand.ok
                    THEN RefMachine(code, after.next, Append(stack, operand.value))
                    ELSE [ok |-> FALSE, trapped |-> FALSE, stack |-> stack]
          [] b \in {106, 107, 108, 109, 111} ->
                IF n < 2 THEN [ok |-> FALSE, trapped |-> FALSE, stack |-> stack]
                ELSE LET rhs == stack[n]
                         lhs == stack[n - 1]
                     IN  IF \/ b \in {109, 111} /\ rhs = 0
                            \/ b = 109 /\ lhs = I32Min /\ rhs = -1
                         THEN [ok |-> TRUE, trapped |-> TRUE, stack |-> <<>>]
                         ELSE RefMachine(code, pos + 1,
                                         Append(SubSeq(stack, 1, n - 2),
                                                RefApply(RefOperatorOf(b), lhs, rhs)))
          [] OTHER -> [ok |-> FALSE, trapped |-> FALSE, stack |-> stack]

\* the code entry of main in the bytes of the module, run after its empty
\* vector of locals
RefRunMain(bytes, program) ==
    LET codes == RefVector(RefModule(bytes), 10, "code")
    IN  IF /\ codes.ok
           /\ program.mainFunction \in 1..Len(codes.items)
           /\ RefAt(codes.items[program.mainFunction], 1) = 0
        THEN RefMachine(codes.items[program.mainFunction], 2, <<>>)
        ELSE [ok |-> FALSE, trapped |-> FALSE, stack |-> <<>>]

C26_InterpreterAndEmitterAgree ==
    (pc = "compiled" /\ compiled.st = "true" /\ RefLiteralMain(parsed.program)) =>
        LET run == RefRunMain(compiled.bytes, parsed.program)
            outcomes == execute(parsed.program)
        IN  /\ run.ok
            /\ ~run.trapped => Len(run.stack) = 1
            /\ \A o \in outcomes : o.st \in {"value", "trap"}
            \* the value execute returns is the value the machine leaves
            /\ \A o \in outcomes :
                  (o.st = "value" /\ ~run.trapped) => run.stack = <<o.value>>
            \* an evaluation without undefined behaviour returns one value,
            \* and the machine leaves it
            /\ (\A o \in outcomes : o.st = "value") =>
                  /\ ~run.trapped
                  /\ outcomes = {[st |-> "value", value |-> run.stack[1], what |-> <<>>]}
            \* the machine traps only where the evaluation is undefined
            /\ run.trapped => \E o \in outcomes : o.st = "trap"

\* 12310i32 % 100i32 / 3i32 + 2i32 * -2i32 - -7i32, the operators applied
\* from left to right: execute returns -3 and the machine leaves -3
C26_Witness ==
    /\ pc = "compiled"
    /\ compiled.st = "true"
    /\ scenario.kind = "arith"
    /\ scenario.expr.ops = <<"modulo", "divide", "add", "multiply", "subtract">>
    /\ RefLiteralMain(parsed.program)
    /\ execute(parsed.program) = {[st |-> "value", value |-> -3, what |-> <<>>]}
    /\ RefRunMain(compiled.bytes, parsed.program) =
          [ok |-> TRUE, trapped |-> FALSE, stack |-> <<-3>>]

\* 0i32 - 3i32: the order of the operands shows in the result
C26_OperandOrderMet ==
    /\ pc = "compiled"
    /\ compiled.st = "true"
    /\ scenario.kind = "arith"
    /\ scenario.expr = Chain(<<Lit(0), Lit(3)>>, <<"subtract">>)
    /\ execute(parsed.program) = {[st |-> "value", value |-> -3, what |-> <<>>]}
    /\ RefRunMain(compiled.bytes, parsed.program).stack = <<-3>>

\* -2147483648i32 - 3i32 does not fit: when execute carries on, it returns
\* the value the machine leaves
C26_WrappedResultMet ==
    /\ pc = "compiled"
    /\ compiled.st = "true"
    /\ scenario.kind = "arith"
    /\ scenario.expr = Chain(<<Lit(I32Min), Lit(3)>>, <<"subtract">>)
    /\ [st |-> "value", value |-> I32Max - 2, what |-> <<>>] \in execute(parsed.program)
    /\ RefRunMain(compiled.bytes, parsed.program).stack = <<I32Max - 2>>

\* 3i32 / 0i32: the evaluation is undefined and the machine traps
C26_TrapMet ==
    /\ pc = "compiled"
    /\ compiled.st = "true"
    /\ scenario.kind = "arith"
    /\ scenario.expr = Chain(<<Lit(3), Lit(0)>>, <<"divide">>)
    /\ RefRunMain(compiled.bytes, parsed.program).trapped

====
